---- MODULE Spec2Model ----
(***************************************************************************)
(* A model of the telemetry pipeline of project-road-70: the field         *)
(* normalizer (server/main.py), the event analyzer (server/analysis.py),   *)
(* the segment identity resolver and score aggregator                      *)
(* (server/roadscore.py), the rollup engine (server/db.py) and the geocode *)
(* cache (server/geocode.py, server/main.py).                              *)
(*                                                                         *)
(* Conventions.  A JSON/Python value is a tagged record: None, Num(n),     *)
(* Str(s), Lst (a list or dict, a value no column can bind).  A number is  *)
(* kept in fixed point, in hundredths: Num(4500) is 45.0 and Num(55) is    *)
(* 0.55.  A Python dict is a function from its keys to values; a key that  *)
(* is not in the dict is not in the function's DOMAIN.  A Python str is a  *)
(* TLA+ string.                                                            *)
(***************************************************************************)
EXTENDS Integers, Sequences, FiniteSets, TLC

VARIABLES
    metric_aggregates,  \* committed rows of table metric_aggregates, in id order
    sqlite_sequence,    \* AUTOINCREMENT high-water mark of metric_aggregates
    request,            \* the last HTTP request handled
    response,           \* the response it was given
    arg,                \* input of the function under study
    out,                \* its current output
    calls,              \* how many times it has been applied
    API_KEY,            \* ROADSTATE_API_KEY as read when the server starts
    road_segments,      \* table road_segments: segment_id -> row
    road_scores,        \* table road_scores: segment_id -> row
    segment_hourly,     \* table segment_hourly: <<segment_key, hour_bucket>> -> row
    geocode_cache,      \* table geocode_cache as geocode.py uses it: key -> row
    payload_cache,      \* table geocode_cache as main.py creates it: key -> row
    requests_sent,      \* requests made to the external geocoder so far
    now                 \* the clock (_now()), in seconds since the server started

\* the tables and settings outside the ingestion path
derivedVars ==
    <<API_KEY, road_segments, road_scores, segment_hourly, geocode_cache, payload_cache,
      requests_sent, now>>

vars ==
    <<metric_aggregates, sqlite_sequence, request, response, arg, out, calls, derivedVars>>

(***************************************************************************)
(* Python values                                                           *)
(***************************************************************************)
None == [t |-> "none"]
Lst == [t |-> "list"]
Absent == [t |-> "absent"]
Num(n) == [t |-> "num", n |-> n]
Str(s) == [t |-> "str", s |-> s]

IsNum(v) == v.t = "num"
IsStr(v) == v.t = "str"

\* d.get(k)
Get(d, k) == IF k \in DOMAIN d THEN d[k] ELSE None

\* d[k] = v
Put(d, k, v) == [x \in DOMAIN d \cup {k} |-> IF x = k THEN v ELSE d[x]]

\* bool(v): None, "", 0 and 0.0 are falsy; a list stands for a non-empty one
Truthy(v) ==
    CASE v.t = "none" -> FALSE
      [] v.t = "str" -> v.s # ""
      [] v.t = "num" -> v.n # 0
      [] OTHER -> TRUE

\* a or b
Or(a, b) == IF Truthy(a) THEN a ELSE b

\* a dict from a total assignment in which Absent marks the keys left out
Dict(f) == [k \in {x \in DOMAIN f : f[x] # Absent} |-> f[k]]

Abs(n) == IF n < 0 THEN -n ELSE n

(***************************************************************************)
(* Python strings                                                          *)
(***************************************************************************)
Char(s, i) == SubSeq(s, i, i)

RECURSIVE lstrip(_)
lstrip(s) == IF s # "" /\ Head(s) = " " THEN lstrip(Tail(s)) ELSE s

RECURSIVE rstrip(_)
rstrip(s) ==
    IF s # "" /\ Char(s, Len(s)) = " " THEN rstrip(SubSeq(s, 1, Len(s) - 1)) ELSE s

\* str.strip()
strip(s) == rstrip(lstrip(s))

\* sub in s
Contains(s, sub) ==
    \E i \in 1..(Len(s) - Len(sub) + 1) : SubSeq(s, i, i + Len(sub) - 1) = sub

\* s.count(sub), for a non-empty sub
RECURSIVE Count(_, _)
Count(s, sub) ==
    IF Len(s) < Len(sub) THEN 0
    ELSE IF SubSeq(s, 1, Len(sub)) = sub
         THEN 1 + Count(SubSeq(s, Len(sub) + 1, Len(s)), sub)
         ELSE Count(Tail(s), sub)

\* " ".join(seq)
RECURSIVE join(_)
join(seq) ==
    IF seq = <<>> THEN ""
    ELSE IF Len(seq) = 1 THEN seq[1]
    ELSE seq[1] \o " " \o join(Tail(seq))

Digits == <<"0", "1", "2", "3", "4", "5", "6", "7", "8", "9">>
IsDigit(c) == \E i \in 1..10 : Digits[i] = c
DigitVal(c) == (CHOOSE i \in 1..10 : Digits[i] = c) - 1

RECURSIVE DecVal(_)
DecVal(s) == IF s = "" THEN 0 ELSE 10 * DecVal(SubSeq(s, 1, Len(s) - 1)) + DigitVal(Char(s, Len(s)))

AllDigits(s) == s # "" /\ \A i \in 1..Len(s) : IsDigit(Char(s, i))

\* float(s) of a str: surrounding blanks are ignored, an integer literal with an
\* optional sign is read, anything else raises ValueError (None here).  The
\* result is in hundredths.
ParseFloat(s) ==
    LET u == strip(s)
        neg == u # "" /\ Head(u) = "-"
        body == IF neg THEN Tail(u) ELSE u
    IN  IF AllDigits(body)
        THEN Num((IF neg THEN -1 ELSE 1) * 100 * DecVal(body))
        ELSE None

(***************************************************************************)
(* server/main.py: _f and sanitize_lat_lon                                 *)
(***************************************************************************)
LAT_MAX == 9000
LON_MAX == 18000
SPEEDISH_MAX == 6000

\* float(x), or None when x is None, "" or not convertible
_f(x) ==
    CASE x.t = "none" -> None
      [] x.t = "num" -> x
      [] x.t = "str" -> IF x.s = "" THEN None ELSE ParseFloat(x.s)
      [] OTHER -> None

TAG_LAT == "sanity:lat_out_of_range"
TAG_LON == "sanity:lon_out_of_range"
TAG_SPEED == "sanity:lon_looks_like_speed"

\* x is a float beyond +-max
beyond_or_at(x, max) == x # None /\ Abs(x.n) >= max

beyond(x, max) == x # None /\ Abs(x.n) > max

\* the coordinate kept by sanitize_lat_lon: None when out of range
keep_coord_always(x, max) == x

keep_coord(x, max) == IF beyond(x, max) THEN None ELSE x

\* the notes list built by sanitize_lat_lon from the floats lat, lon and speed
notes_of(lat, lon, speed) ==
    (IF beyond(lat, LAT_MAX) THEN <<TAG_LAT>> ELSE <<>>)
    \o (IF beyond(lon, LON_MAX) THEN <<TAG_LON>> ELSE <<>>)
    \o (IF keep_coord(lon, LON_MAX) # None /\ speed # None
           /\ Abs(lon.n) <= SPEEDISH_MAX /\ Abs(speed.n) <= SPEEDISH_MAX
        THEN <<TAG_SPEED>> ELSE <<>>)

sanitize_notes(d) == notes_of(_f(Get(d, "lat")), _f(Get(d, "lon")), _f(Get(d, "speed_mps")))

\* the quality_note written when notes is not empty
append_notes(qn, notes) == Str(strip(qn \o (IF qn # "" THEN " | " ELSE "") \o join(notes)))

sanitize_note(d, notes) ==
    IF notes # <<>>
    THEN Put(d, "quality_note", append_notes(strip(Or(Get(d, "quality_note"), Str("")).s), notes))
    ELSE d

\* sanitize_lat_lon(d): the dict d after the call
sanitize_lat_lon(d) ==
    Put(Put(sanitize_note(d, sanitize_notes(d)),
            "lat", keep_coord(_f(Get(d, "lat")), LAT_MAX)),
        "lon", keep_coord(_f(Get(d, "lon")), LON_MAX))

(***************************************************************************)
(* server/main.py: table metric_aggregates and named_insert_metric         *)
(*                                                                         *)
(* A request payload is an ordered dict, a sequence of <<key, value>>      *)
(* pairs in document order: the order decides which of two keys that map   *)
(* to one column is stored.                                                *)
(***************************************************************************)
ODict(od) == [t |-> "dict", od |-> od]
IsDict(v) == v.t = "dict"
KeysOf(od) == {od[i][1] : i \in 1..Len(od)}
Last(od, k) == od[CHOOSE i \in 1..Len(od) : od[i][1] = k /\ \A j \in (i + 1)..Len(od) : od[j][1] # k][2]

\* the columns ensure_tables creates
table_cols ==
    {"id", "received_at", "node_id", "bucket_start", "bucket_seconds", "grid_key",
     "direction", "speed_band", "road_roughness", "shock_events", "confidence",
     "sample_count", "lat", "lon", "speed_mps", "heading_deg", "mount_state",
     "device_posture", "moving", "analyzable", "points_eligible", "road_name",
     "short_location", "quality_note"}

NotNullCols ==
    {"received_at", "node_id", "bucket_start", "bucket_seconds", "grid_key",
     "direction", "speed_band"}

\* the DEFAULT of a column
ColDefault(c) ==
    CASE c \in {"mount_state", "device_posture", "road_name", "short_location",
                "quality_note"} -> Str("")
      [] c \in {"moving", "points_eligible"} -> Num(0)
      [] c = "analyzable" -> Num(100)
      [] OTHER -> None

aliases ==
    [k \in {"heading", "speed", "lat_deg", "lon_deg", "latitude", "longitude", "lng",
            "long", "gps_lat", "gps_lon", "gps_lng", "speed_ms", "speed_m_s",
            "speedMps", "headingDeg", "conf", "confidence_score", "confidenceScore",
            "deviceId", "device_id"} |->
        CASE k \in {"heading", "headingDeg"} -> "heading_deg"
          [] k \in {"speed", "speed_ms", "speed_m_s", "speedMps"} -> "speed_mps"
          [] k \in {"lat_deg", "latitude", "gps_lat"} -> "lat"
          [] k \in {"lon_deg", "longitude", "lng", "long", "gps_lon", "gps_lng"} -> "lon"
          [] k \in {"conf", "confidence_score", "confidenceScore"} -> "confidence"
          [] OTHER -> "node_id"]

\* aliases.get(k, k)
Alias(k) == IF k \in DOMAIN aliases THEN aliases[k] ELSE k

\* the loop that fills mapped: a later key overwrites an earlier one
map_fields(data) ==
    LET hits(c) == {i \in 1..Len(data) : Alias(data[i][1]) = c}
        max(S) == CHOOSE i \in S : \A j \in S : j <= i
    IN  [c \in {x \in table_cols : hits(x) # {}} |-> data[max(hits(c))][2]]

\* d.setdefault(k, v)
setdefault(d, k, v) == IF k \in DOMAIN d THEN d ELSE Put(d, k, v)

\* utc_now(): the clock is not modelled, every request is handled at this instant
utc_now == "2026-01-01T00:00:00Z"

Unset == {None, Str(""), Str("null")}

\* the three "if" defaults applied to the mapped dict
default_sample_count(d) ==
    IF Get(d, "sample_count") \in Unset THEN Put(d, "sample_count", Num(100)) ELSE d

default_bucket_seconds(d) ==
    IF Get(d, "bucket_seconds") \in Unset
    THEN Put(d, "bucket_seconds", Or(Get(d, "window_seconds"), Num(500)))
    ELSE d

default_node_id(d) ==
    IF ~Truthy(Get(d, "node_id"))
    THEN Put(d, "node_id", Or(Get(d, "device_id"), Or(Get(d, "id"), Str("unknown"))))
    ELSE d

\* d.setdefault("bucket_start", d["received_at"])
default_bucket_start(d) == setdefault(d, "bucket_start", d["received_at"])

\* the setdefault calls, in the order of the code
setdefaults(d) ==
    setdefault(setdefault(setdefault(setdefault(setdefault(
        default_bucket_start(
            setdefault(setdefault(d, "received_at", Str(utc_now)), "node_id", Str("unknown"))),
        "bucket_seconds", Num(500)),
        "grid_key", Str("seg:unknown")),
        "direction", Str("unknown")),
        "speed_band", Str("unknown")),
        "quality_note", Str(""))

\* the defaults applied to the mapped dict
apply_defaults(d) ==
    setdefaults(default_node_id(default_bucket_seconds(default_sample_count(d))))

\* con.execute("INSERT ...") raises: a NULL in a NOT NULL column
\* (IntegrityError) or a value sqlite3 cannot bind
insert_raises(d) ==
    \/ \E c \in NotNullCols : Get(d, c) = None
    \/ \E c \in DOMAIN d : d[c] = Lst

\* the row the INSERT stores under the given id
stored_row(d, id) ==
    [c \in table_cols |->
        IF c = "id" THEN id ELSE IF c \in DOMAIN d THEN d[c] ELSE ColDefault(c)]

\* named_insert_metric(con, data) with the AUTOINCREMENT mark at seq: the row it
\* inserts, or the exception it raises
insert_or_raise(d, seq) ==
    IF DOMAIN d \cap table_cols = {}
    THEN [ok |-> FALSE, status |-> 400, detail |-> "No writable fields"]
    ELSE IF insert_raises(d)
    THEN [ok |-> FALSE, status |-> 500, detail |-> "Internal Server Error"]
    ELSE [ok |-> TRUE, row |-> stored_row(d, seq + 1)]

\* the dict named_insert_metric binds to the INSERT
normalized(data) == sanitize_lat_lon(apply_defaults(map_fields(data)))

named_insert_metric(data, seq) == insert_or_raise(normalized(data), seq)

\* require_key(req) lets the request through
require_key(x_api_key) ==
    \/ API_KEY = ""
    \/ strip(Or(x_api_key, Str("")).s) = API_KEY

\* row = dict(base); row.update(dict(it))
row_update(base, it) ==
    [i \in 1..Len(base) |->
        IF base[i][1] \in KeysOf(it) THEN <<base[i][1], Last(it, base[i][1])>> ELSE base[i]]
    \o SelectSeq(it, LAMBDA pr : pr[1] \notin KeysOf(base))

\* the batch loop of ingest_aggregates from item i on, with the rows inserted in
\* the open transaction so far
RECURSIVE insert_items(_, _, _, _)
insert_from(base, items, i, rows, r) ==
    IF r.ok THEN insert_items(base, items, i + 1, rows \o <<r.row>>) ELSE r

insert_items(base, items, i, rows) ==
    IF i > Len(items) THEN [ok |-> TRUE, rows |-> rows]
    ELSE IF ~IsDict(items[i]) THEN insert_items(base, items, i + 1, rows)
    ELSE insert_from(base, items, i, rows,
                     named_insert_metric(row_update(base, items[i].od),
                                         sqlite_sequence + Len(rows)))

(***************************************************************************)
(* server/analysis.py: _f, _event and analyze_aggregate                    *)
(***************************************************************************)
Uppers == <<"A", "B", "C", "D", "E", "F", "G", "H", "I", "J", "K", "L", "M",
            "N", "O", "P", "Q", "R", "S", "T", "U", "V", "W", "X", "Y", "Z">>
Lowers == <<"a", "b", "c", "d", "e", "f", "g", "h", "i", "j", "k", "l", "m",
            "n", "o", "p", "q", "r", "s", "t", "u", "v", "w", "x", "y", "z">>

LowerChar(c) ==
    IF \E i \in 1..26 : Uppers[i] = c
    THEN Lowers[CHOOSE i \in 1..26 : Uppers[i] = c]
    ELSE c

UpperChar(c) ==
    IF \E i \in 1..26 : Lowers[i] = c
    THEN Uppers[CHOOSE i \in 1..26 : Lowers[i] = c]
    ELSE c

\* str.lower()
RECURSIVE lower(_)
lower(s) == IF s = "" THEN "" ELSE LowerChar(Head(s)) \o lower(Tail(s))

\* str.upper()
RECURSIVE upper(_)
upper(s) == IF s = "" THEN "" ELSE UpperChar(Head(s)) \o upper(Tail(s))

ROUGH_MAJOR == 55
ROUGH_MODERATE == 35
SHOCK_MAJOR == 600
SHOCK_MODERATE == 300
CONF_LOW == 30

\* analysis._f: float(value), or None when value is None, "" or not convertible
analysis_f_zero(value) ==
    CASE value.t = "num" -> value
      [] value.t = "str" -> IF value.s = "" THEN Num(0) ELSE ParseFloat(value.s)
      [] OTHER -> Num(0)

analysis_f(value) ==
    CASE value.t = "none" -> None
      [] value.t = "num" -> value
      [] value.t = "str" -> IF value.s = "" THEN None ELSE ParseFloat(value.s)
      [] OTHER -> None

_event(event_type, severity, reason, score, payload) ==
    [event_type |-> event_type, severity |-> severity, score |-> score,
     reason |-> reason, analysis_payload |-> payload]

\* the events of the roughness rule
rough_rule_gt(roughness) ==
    IF roughness = None THEN <<>>
    ELSE IF roughness.n > ROUGH_MAJOR
         THEN <<_event("rough_surface", "major", "roughness >= 0.55", roughness,
                       [roughness |-> roughness])>>
    ELSE IF roughness.n >= ROUGH_MODERATE
         THEN <<_event("rough_surface", "moderate", "roughness >= 0.35", roughness,
                       [roughness |-> roughness])>>
    ELSE <<>>

rough_rule(roughness) ==
    IF roughness = None THEN <<>>
    ELSE IF roughness.n >= ROUGH_MAJOR
         THEN <<_event("rough_surface", "major", "roughness >= 0.55", roughness,
                       [roughness |-> roughness])>>
    ELSE IF roughness.n >= ROUGH_MODERATE
         THEN <<_event("rough_surface", "moderate", "roughness >= 0.35", roughness,
                       [roughness |-> roughness])>>
    ELSE <<>>

\* the events of the shock rule
shock_rule(shocks) ==
    IF shocks = None THEN <<>>
    ELSE IF shocks.n >= SHOCK_MAJOR
         THEN <<_event("shock_cluster", "major", "shock_events >= 6", shocks,
                       [shock_events |-> shocks])>>
    ELSE IF shocks.n >= SHOCK_MODERATE
         THEN <<_event("shock_cluster", "moderate", "shock_events >= 3", shocks,
                       [shock_events |-> shocks])>>
    ELSE <<>>

\* the events of the confidence rule
confidence_rule(confidence) ==
    IF confidence # None /\ confidence.n < CONF_LOW
    THEN <<_event("low_confidence", "minor", "confidence < 0.30", confidence,
                  [confidence |-> confidence])>>
    ELSE <<>>

\* the events of the quality_note rule
telemetry_rule(quality_note) ==
    IF \/ Contains(quality_note, "sanity:")
       \/ Contains(quality_note, "lat_out_of_range")
       \/ Contains(quality_note, "lon_out_of_range")
    THEN <<_event("telemetry_issue", "minor", "quality_note indicates telemetry anomaly",
                  None, [quality_note |-> quality_note])>>
    ELSE <<>>

\* a variant in which the confidence rule is an elif of the shock rule
analyze_aggregate_elif(data) ==
    LET shocks == shock_rule(analysis_f(Get(data, "shock_events")))
    IN  rough_rule(analysis_f(Get(data, "road_roughness")))
        \o shocks
        \o (IF shocks = <<>> THEN confidence_rule(analysis_f(Get(data, "confidence")))
            ELSE <<>>)
        \o telemetry_rule(lower(Or(Get(data, "quality_note"), Str("")).s))

analyze_aggregate(data) ==
    LET roughness == analysis_f(Get(data, "road_roughness"))
        shocks == analysis_f(Get(data, "shock_events"))
        confidence == analysis_f(Get(data, "confidence"))
        quality_note == lower(Or(Get(data, "quality_note"), Str("")).s)
    IN  rough_rule(roughness) \o shock_rule(shocks)
        \o confidence_rule(confidence) \o telemetry_rule(quality_note)

(***************************************************************************)
(* Analysis of one canonical record                                        *)
(***************************************************************************)
RoughInputs ==
    {Absent, None, Str(""), Str("abc"), Num(0), Num(20), Num(34), Num(35), Num(40),
     Num(54), Num(55), Num(60), Num(150)}
ShockInputs ==
    {Absent, None, Str(""), Num(0), Num(200), Num(300), Num(500), Num(600), Num(900)}
ConfInputs == {Absent, None, Str(""), Num(0), Num(29), Num(30), Num(90)}
AnalyzeNoteInputs ==
    {Absent, None, Str(""), Str("gps_ok"), Str(TAG_LAT),
     Str("gps_ok | sanity:lon_looks_like_speed"), Str("SANITY:manual"),
     Str("lon_out_of_range")}

AnalyzeInputs ==
    {Dict([road_roughness |-> r, shock_events |-> s, confidence |-> c, quality_note |-> q]) :
        r \in RoughInputs, s \in ShockInputs, c \in ConfInputs, q \in AnalyzeNoteInputs}

(***************************************************************************)
(* server/roadscore.py: make_segment_id                                    *)
(***************************************************************************)
\* hashlib.sha1(base).hexdigest()[:16]: the digest is not computed; distinct
\* texts are given distinct ids
sha1_16(base) == "sha1_16(" \o base \o ")"

\* one component of the base text: (x or "").strip().upper()
segment_part_nocase(x) == strip(Or(x, Str("")).s)

segment_part(x) == upper(strip(Or(x, Str("")).s))

make_segment_id(hwy_ref, road_name, state) ==
    LET base == segment_part(hwy_ref) \o "|" \o segment_part(road_name)
                    \o "|" \o segment_part(state)
    IN  sha1_16(IF base = "||" THEN "UNKNOWN" ELSE base)

SegmentInputs ==
    {None, Str(""), Str("  "), Str("I-70"), Str("i-70"), Str(" I-70 "), Str("Main St")}

SegmentTriples == SegmentInputs \X SegmentInputs \X SegmentInputs

(***************************************************************************)
(* Repeated normalization of one payload                                   *)
(***************************************************************************)
MaxCalls == 2

LatInputs ==
    {Absent, None, Str(""), Str("abc"), Str("999"), Str(" 45 "),
     Num(-9001), Num(-9000), Num(0), Num(4500), Num(9000), Num(9001), Num(99900)}
LonInputs ==
    {Absent, None, Num(-18001), Num(-18000), Num(-10000), Num(-6001), Num(-6000),
     Num(0), Num(3000), Num(6000), Num(6001), Num(18000), Num(18001)}
SpeedInputs == {Absent, None, Num(0), Num(500), Num(6000), Num(6001)}
NoteInputs ==
    {Absent, None, Str(""), Str("gps_ok"), Str(" mount loose "), Str(TAG_LAT)}

SanitizeInputs ==
    {Dict([lat |-> la, lon |-> lo, speed_mps |-> sp, quality_note |-> qn]) :
        la \in LatInputs, lo \in LonInputs, sp \in SpeedInputs, qn \in NoteInputs}

\* a table with no rows
EmptyTable == [k \in {} |-> None]

\* no key configured (ROADSTATE_API_KEY unset), empty derived tables
IdleDerived ==
    /\ API_KEY = ""
    /\ road_segments = EmptyTable
    /\ road_scores = EmptyTable
    /\ segment_hourly = EmptyTable
    /\ geocode_cache = EmptyTable
    /\ payload_cache = EmptyTable
    /\ requests_sent = 0
    /\ now = 0

IdleIngest ==
    /\ metric_aggregates = <<>>
    /\ sqlite_sequence = 0
    /\ request = None
    /\ response = None
    /\ IdleDerived

InitSanitize ==
    /\ IdleIngest
    /\ arg \in SanitizeInputs
    /\ out = arg
    /\ calls = 0

Sanitize ==
    /\ calls < MaxCalls
    /\ out' = sanitize_lat_lon(out)
    /\ calls' = calls + 1
    /\ UNCHANGED <<metric_aggregates, sqlite_sequence, request, response, arg, derivedVars>>

NextSanitize == Sanitize

SpecSanitize == InitSanitize /\ [][NextSanitize]_vars

\* the text of a dict's quality_note ("" when absent or null)
NoteOf(d) == Or(Get(d, "quality_note"), Str("")).s

InRange(v, max) == IsNum(v) /\ Abs(v.n) <= max
OutOfRange(v, max) == IsNum(_f(v)) /\ Abs(_f(v).n) > max

SpeedIsh(d) ==
    /\ IsNum(_f(Get(d, "speed_mps")))
    /\ IsNum(_f(Get(d, "lon")))
    /\ Abs(_f(Get(d, "lon")).n) <= SPEEDISH_MAX
    /\ Abs(_f(Get(d, "speed_mps")).n) <= SPEEDISH_MAX

ValidLatLon(d) ==
    /\ InRange(Get(d, "lat"), LAT_MAX)
    /\ InRange(Get(d, "lon"), LON_MAX)

C4_LatTagOnce ==
    (calls >= 1 /\ OutOfRange(Get(arg, "lat"), LAT_MAX)) =>
        /\ out["lat"] = None
        /\ Count(NoteOf(out), TAG_LAT) = Count(NoteOf(arg), TAG_LAT) + 1
        /\ Count(NoteOf(sanitize_lat_lon(out)), TAG_LAT) = Count(NoteOf(out), TAG_LAT)

C4_Witness ==
    /\ calls = MaxCalls
    /\ arg["lat"] = Num(99900)
    /\ NoteOf(arg) = ""
    /\ out["lat"] = None
    /\ Count(NoteOf(out), TAG_LAT) = 1

InitAnalyze ==
    /\ IdleIngest
    /\ arg \in AnalyzeInputs
    /\ out = None
    /\ calls = 0

Analyze ==
    /\ calls = 0
    /\ out' = analyze_aggregate(arg)
    /\ calls' = 1
    /\ UNCHANGED <<metric_aggregates, sqlite_sequence, request, response, arg, derivedVars>>

NextAnalyze == Analyze

SpecAnalyze == InitAnalyze /\ [][NextAnalyze]_vars

\* the events of out that have the given type (and severity)
EventsOf(type) == {i \in 1..Len(out) : out[i].event_type = type}
EventsAt(type, severity) == {i \in EventsOf(type) : out[i].severity = severity}

\* C7: at most one rough_surface and one shock_cluster event per record, in
\* exclusive bands: rough_surface major iff roughness >= 0.55, moderate iff
\* 0.35 <= roughness < 0.55, none below; shock_cluster major iff shocks >= 6,
\* moderate iff 3 <= shocks < 6, none below; the score is the signal's value.
C7_SeverityBands ==
    calls = 1 =>
        LET r == Get(arg, "road_roughness")
            s == Get(arg, "shock_events")
        IN  /\ Cardinality(EventsOf("rough_surface")) <= 1
            /\ Cardinality(EventsOf("shock_cluster")) <= 1
            /\ \A i \in EventsOf("rough_surface") : out[i].score = r
            /\ \A i \in EventsOf("shock_cluster") : out[i].score = s
            /\ IsNum(r) =>
                /\ EventsAt("rough_surface", "major") # {} <=> r.n >= 55
                /\ EventsAt("rough_surface", "moderate") # {} <=> (35 <= r.n /\ r.n < 55)
                /\ EventsOf("rough_surface") = {} <=> r.n < 35
            /\ IsNum(s) =>
                /\ EventsAt("shock_cluster", "major") # {} <=> s.n >= 600
                /\ EventsAt("shock_cluster", "moderate") # {} <=> (300 <= s.n /\ s.n < 600)
                /\ EventsOf("shock_cluster") = {} <=> s.n < 300

C7_Witness ==
    /\ calls = 1
    /\ Get(arg, "road_roughness") = Num(55)
    /\ Get(arg, "shock_events") = Num(500)
    /\ EventsAt("rough_surface", "major") # {}
    /\ EventsAt("shock_cluster", "moderate") # {}

\* C8: a missing, null or empty signal is never read as zero: low_confidence
\* (minor) is emitted iff confidence is present and < 0.30, and an absent, null
\* or empty road_roughness or shock_events yields no event of its rule.
C8_MissingIsNotZero ==
    calls = 1 =>
        LET r == Get(arg, "road_roughness")
            s == Get(arg, "shock_events")
            c == Get(arg, "confidence")
        IN  /\ EventsOf("low_confidence") # {} <=> (IsNum(c) /\ c.n < 30)
            /\ \A i \in EventsOf("low_confidence") : out[i].severity = "minor"
            /\ ~IsNum(r) => EventsOf("rough_surface") = {}
            /\ ~IsNum(s) => EventsOf("shock_cluster") = {}

C8_Witness ==
    /\ calls = 1
    /\ "confidence" \notin DOMAIN arg
    /\ Get(arg, "road_roughness") = None
    /\ Get(arg, "shock_events") = Str("")
    /\ out = <<>>

RuleOrder == <<"rough_surface", "shock_cluster", "low_confidence", "telemetry_issue">>

\* the types of a list of events, in order
TypesOf(events) == [i \in 1..Len(events) |-> events[i].event_type]

\* seq lists some of RuleOrder's types, each once, in RuleOrder's order
InRuleOrder(seq) ==
    /\ \A i \in 1..Len(seq) : \E k \in 1..4 : RuleOrder[k] = seq[i]
    /\ \A i, j \in 1..Len(seq) :
        i < j => \E k, l \in 1..4 : k < l /\ RuleOrder[k] = seq[i] /\ RuleOrder[l] = seq[j]

\* quality_note carries a sanity tag: a "sanity:" tag or one of the range tags'
\* names, in any case
HasSanityTag(d) ==
    \E tag \in {"sanity:", "lat_out_of_range", "lon_out_of_range"} :
        Contains(lower(NoteOf(d)), tag)

\* the set of event types analyze_aggregate gives for each input record
ProducedTypeSets ==
    {{analyze_aggregate(d)[i].event_type : i \in 1..Len(analyze_aggregate(d))} :
        d \in AnalyzeInputs}

\* every combination of the four rules is produced by some record
AllCombinations ==
    \A combo \in SUBSET {1, 2, 3, 4} : {RuleOrder[k] : k \in combo} \in ProducedTypeSets

\* C9: the output lists a subsequence of the rule order rough_surface,
\* shock_cluster, low_confidence, telemetry_issue, each type at most once; every
\* one of the 16 combinations of rules is produced by some record; and
\* telemetry_issue (minor) is present iff quality_note carries a sanity tag.
C9_RuleOrderIndependent ==
    /\ calls = 1 =>
        /\ InRuleOrder(TypesOf(out))
        /\ EventsOf("telemetry_issue") # {} <=> HasSanityTag(arg)
        /\ \A i \in EventsOf("telemetry_issue") : out[i].severity = "minor"
    /\ AllCombinations

C9_Witness ==
    /\ calls = 1
    /\ TypesOf(out) = RuleOrder
    /\ Get(arg, "quality_note") = Str("SANITY:manual")

InitSegment ==
    /\ IdleIngest
    /\ arg \in SegmentTriples
    /\ out = None
    /\ calls = 0

MakeSegmentId ==
    /\ calls = 0
    /\ out' = make_segment_id(arg[1], arg[2], arg[3])
    /\ calls' = 1
    /\ UNCHANGED <<metric_aggregates, sqlite_sequence, request, response, arg, derivedVars>>

NextSegment == MakeSegmentId

SpecSegment == InitSegment /\ [][NextSegment]_vars

\* the id of every triple of SegmentTriples
SegmentIds == [t \in SegmentTriples |-> make_segment_id(t[1], t[2], t[3])]

\* a component without its case and its leading and trailing blanks
Folded(x) == IF x = None THEN None ELSE Str(lower(strip(x.s)))

\* two triples differ only in case or in leading/trailing whitespace
SameButCaseAndBlanks(a, b) == \A i \in 1..3 : Folded(a[i]) = Folded(b[i])

\* a component is null, empty or whitespace-only
Blank(x) == x = None \/ strip(x.s) = ""

\* C10: make_segment_id depends only on the trimmed, upper-cased triple: inputs
\* that differ only in case or in leading/trailing whitespace get the same id,
\* and a triple whose components are all null, empty or blank gets the id of
\* the "UNKNOWN" sentinel.
C10_SegmentIdNormalized ==
    calls = 1 =>
        /\ \A b \in SegmentTriples : SameButCaseAndBlanks(arg, b) => SegmentIds[b] = out
        /\ (\A i \in 1..3 : Blank(arg[i])) => out = sha1_16("UNKNOWN")
        /\ (\E i \in 1..3 : ~Blank(arg[i])) => out # sha1_16("UNKNOWN")

C10_Witness ==
    /\ calls = 1
    /\ arg = <<Str("i-70"), Str("  "), None>>
    /\ out = SegmentIds[<<Str(" I-70 "), Str("  "), None>>]
    /\ out = sha1_16("I-70||")

(***************************************************************************)
(* The ingestion endpoint                                                  *)
(***************************************************************************)
MaxRows == 2
MaxItems == 2

Envelopes ==
    {<<>>,
     <<<<"node_id", Str("dev-1")>>>>,
     <<<<"node_id", Str("dev-1")>>, <<"lat", Num(4000)>>, <<"lon", Num(-10500)>>,
       <<"quality_note", Str("fleet-7")>>>>}

Items ==
    {ODict(<<>>),
     ODict(<<<<"foo", Num(100)>>>>),
     ODict(<<<<"lat", Num(4500)>>, <<"lon", Num(-10000)>>>>),
     ODict(<<<<"lat", Num(99900)>>, <<"lon", Num(-10000)>>>>),
     ODict(<<<<"latitude", Num(4500)>>, <<"lng", Num(18100)>>>>),
     ODict(<<<<"lat", Num(1000)>>, <<"lon", Num(3000)>>, <<"speed", Num(500)>>>>),
     ODict(<<<<"received_at", None>>>>),
     ODict(<<<<"road_roughness", Lst>>>>),
     ODict(<<<<"node_id", Str("dev-2")>>, <<"road_roughness", Num(60)>>,
             <<"confidence", Num(20)>>>>),
     Num(700)}

ItemLists == UNION {[1..n -> Items] : n \in 0..MaxItems}

Init ==
    /\ metric_aggregates = <<>>
    /\ sqlite_sequence = 0
    /\ request = None
    /\ response = None
    /\ arg = None
    /\ out = None
    /\ calls = 0
    /\ IdleDerived

\* the ids of a list of rows
IdsOf(rows) == [i \in 1..Len(rows) |-> rows[i]["id"]]

\* the transaction is committed and the request answered with body
Commit(rows, body) ==
    /\ metric_aggregates' = metric_aggregates \o rows
    /\ sqlite_sequence' = sqlite_sequence + Len(rows)
    /\ response' = body

\* an exception leaves the handler: the open transaction is dropped by con.close()
Raise(status, detail) ==
    /\ UNCHANGED <<metric_aggregates, sqlite_sequence>>
    /\ response' = [status |-> status, detail |-> detail]

BatchAnswer(res) ==
    IF res.ok
    THEN Commit(res.rows, [status |-> 200, ok |-> TRUE, ids |-> IdsOf(res.rows),
                           count |-> Len(res.rows)])
    ELSE Raise(res.status, res.detail)

SingleAnswer(r) ==
    IF r.ok
    THEN Commit(<<r.row>>, [status |-> 200, ok |-> TRUE, id |-> r.row["id"]])
    ELSE Raise(r.status, r.detail)

\* POST /v1/ingest/aggregates with {..., "items": [...]}
IngestBatch ==
    \E base \in Envelopes, items \in ItemLists :
        /\ Len(metric_aggregates) + Len(items) <= MaxRows
        /\ request' = [endpoint |-> "/v1/ingest/aggregates", x_api_key |-> None,
                       base |-> base, items |-> items]
        /\ IF ~require_key(None)
           THEN Raise(401, "Invalid API key")
           ELSE BatchAnswer(insert_items(base, items, 1, <<>>))
        /\ UNCHANGED <<arg, out, calls, derivedVars>>

\* POST /v1/ingest/aggregates with a single aggregate object
IngestSingle ==
    \E it \in {x \in Items : IsDict(x)} :
        /\ Len(metric_aggregates) + 1 <= MaxRows
        /\ request' = [endpoint |-> "/v1/ingest/aggregates", x_api_key |-> None,
                       data |-> it.od]
        /\ IF ~require_key(None)
           THEN Raise(401, "Invalid API key")
           ELSE SingleAnswer(named_insert_metric(it.od, sqlite_sequence))
        /\ UNCHANGED <<arg, out, calls, derivedVars>>

Next == IngestBatch \/ IngestSingle

Spec == Init /\ [][Next]_vars

(***************************************************************************)
(* Claims about the ingestion endpoint                                     *)
(***************************************************************************)
IsBatch == "items" \in DOMAIN request
IsSingle == "data" \in DOMAIN request

\* the stored row that has the given id
RowById(id) ==
    metric_aggregates[CHOOSE i \in 1..Len(metric_aggregates) : metric_aggregates[i]["id"] = id]

\* two rows agree on every column but the id
SameButId(r, s) == \A c \in table_cols \ {"id"} : r[c] = s[c]

\* item it of a batch with envelope base can be normalized and inserted on its own
Valid(base, it) == IsDict(it) /\ named_insert_metric(row_update(base, it.od), 0).ok

\* item it is an object whose normalization or INSERT raises
Fails(base, it) == IsDict(it) /\ ~named_insert_metric(row_update(base, it.od), 0).ok

ValidItems(base, items) == SelectSeq(items, LAMBDA it : Valid(base, it))

\* C1 as stated: when an item of a batch fails to normalize or insert, the batch
\* is answered 200 with the count of accepted items, and the rows of all the
\* other, valid items are stored and committed, in order, as the newest rows.
C1_FailingItemSkipped ==
    (IsBatch /\ \E i \in 1..Len(request.items) : Fails(request.base, request.items[i])) =>
        LET accepted == ValidItems(request.base, request.items)
            n == Len(metric_aggregates) - Len(accepted)
        IN  /\ response.status = 200
            /\ response.count = Len(accepted)
            /\ n >= 0
            /\ \A k \in 1..Len(accepted) :
                   SameButId(metric_aggregates[n + k],
                             named_insert_metric(row_update(request.base, accepted[k].od), 0).row)

\* C2 as stated: a single aggregate whose incoming lat is outside [-90, 90] or
\* whose incoming lon is outside [-180, 180] is stored, and its stored row has
\* both lat and lon null and a sanity tag in quality_note.
C2_OutOfRangeBothNulled ==
    (IsSingle /\ (\/ OutOfRange(Get(map_fields(request.data), "lat"), LAT_MAX)
                  \/ OutOfRange(Get(map_fields(request.data), "lon"), LON_MAX))) =>
        /\ response.status = 200
        /\ RowById(response.id)["lat"] = None
        /\ RowById(response.id)["lon"] = None
        /\ Contains(RowById(response.id)["quality_note"].s, "sanity:")

\* the canonical fields of an item over those of the envelope: the item's own
\* value where it supplies the field, the envelope's otherwise
Inherit(envelope, item) ==
    [c \in DOMAIN envelope \cup DOMAIN item |->
        IF c \in DOMAIN item THEN item[c] ELSE envelope[c]]

\* C5 as stated: a batch stores one row per valid item, and the row of each is
\* the normalization of that item's own canonical fields over the envelope's,
\* whatever the other items of the batch are.
C5_ItemsIndependent ==
    IsBatch =>
        LET accepted == ValidItems(request.base, request.items)
        IN  /\ response.status = 200
            /\ response.count = Len(accepted)
            /\ \A k \in 1..Len(accepted) :
                   SameButId(RowById(response.ids[k]),
                             stored_row(sanitize_lat_lon(apply_defaults(
                                 Inherit(map_fields(request.base),
                                         map_fields(accepted[k].od)))), 0))

\* C6 as stated: a single aggregate none of whose keys maps to a canonical
\* field is rejected with "No writable fields" and no row is stored.
C6_NoWritableFieldsRaised ==
    [][(IsSingle' /\ DOMAIN map_fields(request'.data) = {}) =>
           /\ metric_aggregates' = metric_aggregates
           /\ response'.status = 400
           /\ response'.detail = "No writable fields"]_vars

(***************************************************************************)
(* Segments (server/roadscore.py)                                          *)
(***************************************************************************)
MaxDays == 2
DAY == 86400

\* float(lat) if isinstance(lat, (int, float)) else None
centroid_value(v) == IF IsNum(v) THEN v ELSE None

\* COALESCE(a, b)
COALESCE(a, b) == IF a # None THEN a ELSE b

\* the row of the INSERT of upsert_segment at time t
excluded_segment(d, t) ==
    [segment_id |-> make_segment_id(Get(d, "hwy_ref"), Get(d, "road_name"), Get(d, "state")),
     hwy_ref |-> Get(d, "hwy_ref"), road_name |-> Get(d, "road_name"),
     state |-> Get(d, "state"), county |-> Get(d, "county"), city |-> Get(d, "city"),
     centroid_lat |-> centroid_value(Get(d, "lat")),
     centroid_lon |-> centroid_value(Get(d, "lon")),
     created_at |-> t, updated_at |-> t]

\* ON CONFLICT(segment_id) DO UPDATE SET ...
segment_on_conflict(old, excluded) ==
    [excluded EXCEPT !.centroid_lat = COALESCE(excluded.centroid_lat, old.centroid_lat),
                     !.centroid_lon = COALESCE(excluded.centroid_lon, old.centroid_lon),
                     !.created_at = old.created_at]

\* a table with the row at key k inserted or replaced
WithRow(table, k, row) ==
    [x \in DOMAIN table \cup {k} |-> IF x = k THEN row ELSE table[x]]

upsert_row(table, excluded) ==
    WithRow(table, excluded.segment_id,
            IF excluded.segment_id \in DOMAIN table
            THEN segment_on_conflict(table[excluded.segment_id], excluded)
            ELSE excluded)

\* upsert_segment(con, d) at time t: table road_segments after the call
upsert_segment(table, d, t) == upsert_row(table, excluded_segment(d, t))

SegmentDicts ==
    {Dict([hwy_ref |-> h, road_name |-> Absent, state |-> Str("CO"), lat |-> c[1], lon |-> c[2]]) :
        h \in {Str("I-70"), Str(" i-70"), Str("US-6")},
        c \in {<<Absent, Absent>>, <<None, None>>, <<Num(3900), Num(-10500)>>,
               <<Num(4000), Num(-10400)>>, <<Str("39.0"), Num(-10500)>>}}

InitUpsert ==
    /\ IdleIngest
    /\ arg = None
    /\ out = None
    /\ calls = 0

UpsertSegment ==
    \E d \in SegmentDicts :
        /\ arg' = d
        /\ road_segments' = upsert_segment(road_segments, d, now)
        /\ out' = make_segment_id(Get(d, "hwy_ref"), Get(d, "road_name"), Get(d, "state"))
        /\ UNCHANGED <<metric_aggregates, sqlite_sequence, request, response, calls, API_KEY,
                       road_scores, segment_hourly, geocode_cache, payload_cache,
                       requests_sent, now>>

\* a day passes
Tick ==
    /\ now < MaxDays * DAY
    /\ now' = now + DAY
    /\ UNCHANGED <<metric_aggregates, sqlite_sequence, request, response, arg, out, calls,
                   API_KEY, road_segments, road_scores, segment_hourly, geocode_cache,
                   payload_cache, requests_sent>>

NextUpsert == UpsertSegment \/ Tick

SpecUpsert == InitUpsert /\ [][NextUpsert]_vars

\* C11 as stated: once a segment's centroid_lat or centroid_lon is non-null, no
\* later upsert overwrites it.
C11_FirstFixWins ==
    [][\A seg \in DOMAIN road_segments :
           /\ road_segments[seg].centroid_lat # None =>
                  road_segments'[seg].centroid_lat = road_segments[seg].centroid_lat
           /\ road_segments[seg].centroid_lon # None =>
                  road_segments'[seg].centroid_lon = road_segments[seg].centroid_lon]_vars

(***************************************************************************)
(* Rollup arithmetic (server/db.py).  A float of db.py is Real(n), the     *)
(* number n/10000, so that the products of percentile and compute_score    *)
(* over the hundredths of a payload are exact; a quotient is rounded down  *)
(* to that resolution.  A percentage p is given in hundredths (50 is 0.50).*)
(***************************************************************************)
Real(n) == [t |-> "real", n |-> n]

\* float(x) of a payload number
ToReal(v) == Real(v.n * 100)

Min(a, b) == IF a <= b THEN a ELSE b
Max(a, b) == IF a >= b THEN a ELSE b

\* sorted(values)
RECURSIVE sorted(_)
insort(x, seq) ==
    LET below == SelectSeq(seq, LAMBDA y : y <= x)
        above == SelectSeq(seq, LAMBDA y : y > x)
    IN  below \o <<x>> \o above

sorted(values) ==
    IF values = <<>> THEN <<>> ELSE insort(Head(values), sorted(Tail(values)))

\* values[f] * (c - k) + values[c] * (k - f), with k = k100 / 100 and 0-based f, c
interpolate(v, k100, f, c) ==
    IF f = c THEN v[f + 1]
    ELSE (v[f + 1] * (c * 100 - k100) + v[c + 1] * (k100 - f * 100)) \div 100

percentile_of_sorted(v, p) ==
    IF Len(v) = 1 THEN Real(v[1])
    ELSE Real(interpolate(v, (Len(v) - 1) * p, ((Len(v) - 1) * p) \div 100,
                          Min(((Len(v) - 1) * p) \div 100 + 1, Len(v) - 1)))

percentile_unsorted(values, p) ==
    IF values = <<>> THEN None ELSE percentile_of_sorted(values, p)

\* percentile(values, p)
percentile(values, p) ==
    IF values = <<>> THEN None ELSE percentile_of_sorted(sorted(values), p)

MaxLen == 3

PercentileValues == {-10000, 0, 10000, 25000}

PercentileLists ==
    UNION {[1..n -> PercentileValues] : n \in 0..MaxLen}
    \cup {<<30000, 10000, 50000, 20000, 40000>>, <<40000, 10000, 30000, 20000>>}

PercentileInputs == {[values |-> vs, p |-> p] : vs \in PercentileLists, p \in {0, 50, 95, 100}}

InitPercentile ==
    /\ IdleIngest
    /\ arg \in PercentileInputs
    /\ out = None
    /\ calls = 0

Percentile ==
    /\ calls = 0
    /\ out' = percentile(arg.values, arg.p)
    /\ calls' = 1
    /\ UNCHANGED <<metric_aggregates, sqlite_sequence, request, response, arg, derivedVars>>

NextPercentile == Percentile

SpecPercentile == InitPercentile /\ [][NextPercentile]_vars

IsSorted(v) == \A i \in 1..(Len(v) - 1) : v[i] <= v[i + 1]

\* v and w hold the same values the same number of times
SameBag(v, w) ==
    /\ Len(v) = Len(w)
    /\ \A x \in {v[i] : i \in 1..Len(v)} :
           Cardinality({i \in 1..Len(v) : v[i] = x}) = Cardinality({i \in 1..Len(w) : w[i] = x})

\* 100 * (v[f] * (c - k) + v[c] * (k - f)) for the sorted values v, 0-based f and c
Interpolated100(v, p) ==
    LET k100 == (Len(v) - 1) * p
        f == k100 \div 100
        c == Min(f + 1, Len(v) - 1)
    IN  v[f + 1] * (c * 100 - k100) + v[c + 1] * (k100 - f * 100)

\* f = c for the percentile p of n values
AtLastValue(n, p) == ((n - 1) * p) \div 100 = Min(((n - 1) * p) \div 100 + 1, n - 1)

\* C15 as stated: percentile is none for the empty list and otherwise
\* v[f]*(c-k) + v[c]*(k-f) over the sorted values.
C15_FormulaEverywhere ==
    calls = 1 =>
        IF arg.values = <<>> THEN out = None
        ELSE out # None /\ out.n * 100 = Interpolated100(sorted(arg.values), arg.p)

\* C15 amended: percentile is none for the empty list; otherwise, over the
\* sorted values, it is v[f] when f = c (one value, or p = 1) and
\* v[f]*(c-k) + v[c]*(k-f) when f < c; it does not depend on the order of the
\* input, lies between the minimum and the maximum, and at p = 0.5 is the
\* middle value for odd n and the mean of the two middle values for even n.
C15_PercentileInterpolates ==
    calls = 1 =>
        LET v == sorted(arg.values)
            n == Len(arg.values)
        IN  IF n = 0 THEN out = None
            ELSE /\ out # None
                 /\ IsSorted(v) /\ SameBag(v, arg.values)
                 /\ IF AtLastValue(n, arg.p)
                    THEN out.n = v[((n - 1) * arg.p) \div 100 + 1]
                    ELSE out.n * 100 = Interpolated100(v, arg.p)
                 /\ \A w \in PercentileLists :
                        SameBag(w, arg.values) => percentile(w, arg.p) = out
                 /\ v[1] <= out.n /\ out.n <= v[n]
                 /\ (arg.p = 50 /\ n % 2 = 1) => out.n = v[(n + 1) \div 2]
                 /\ (arg.p = 50 /\ n % 2 = 0) => 2 * out.n = v[n \div 2] + v[n \div 2 + 1]

C15_Witness ==
    /\ calls = 1
    /\ arg = [values |-> <<40000, 10000, 30000, 20000>>, p |-> 50]
    /\ out = Real(25000)

SCORE_A == 45
SCORE_B == 30
SCORE_TOP == 1000000

\* compute_score(r50, r95)
compute_score(r50, r95) ==
    Real(SCORE_TOP - Max(0, Min(SCORE_TOP, SCORE_A * r50.n + SCORE_B * Max(0, r95.n - r50.n))))

ScoreValues == {-10000, 0, 3500, 5500, 10000, 20000, 22300, 30000, 50000}

InitScore ==
    /\ IdleIngest
    /\ arg \in {<<Real(a), Real(b)>> : a \in ScoreValues, b \in ScoreValues}
    /\ out = None
    /\ calls = 0

ComputeScore ==
    /\ calls = 0
    /\ out' = compute_score(arg[1], arg[2])
    /\ calls' = 1
    /\ UNCHANGED <<metric_aggregates, sqlite_sequence, request, response, arg, derivedVars>>

NextScore == ComputeScore

SpecScore == InitScore /\ [][NextScore]_vars

\* C16 as stated: compute_score(0.0, 0.0) = 100.0, compute_score(1.0, 1.0) = 0.0,
\* and every result is 100 - clamp(45*r50 + 30*max(0, r95-r50), 0, 100), so it
\* lies in [0, 100].
C16_ScoreAsStated ==
    calls = 1 =>
        /\ arg = <<Real(0), Real(0)>> => out = Real(1000000)
        /\ arg = <<Real(10000), Real(10000)>> => out = Real(0)
        /\ LET spread == IF arg[2].n > arg[1].n THEN arg[2].n - arg[1].n ELSE 0
               penalty == 45 * arg[1].n + 30 * spread
           IN  out.n = 1000000 - (IF penalty < 0 THEN 0
                                  ELSE IF penalty > 1000000 THEN 1000000 ELSE penalty)
        /\ 0 <= out.n /\ out.n <= 1000000

(***************************************************************************)
(* Hourly rollups (server/db.py)                                           *)
(***************************************************************************)
\* substr(s, 1, 13)
substr13(s) == SubSeq(s, 1, Min(13, Len(s)))

\* the WHERE clause of rollup_hour without its test of analyzable
is_qualifying_any_analyzable(row, segment_key, hour_bucket) ==
    /\ row["grid_key"] = Str(segment_key)
    /\ substr13(row["bucket_start"].s) = substr13(hour_bucket)
    /\ row["road_roughness"] # None

\* the WHERE clause of rollup_hour
is_qualifying(row, segment_key, hour_bucket) ==
    /\ row["grid_key"] = Str(segment_key)
    /\ substr13(row["bucket_start"].s) = substr13(hour_bucket)
    /\ row["analyzable"] = Num(100)
    /\ row["road_roughness"] # None

\* the rows the SELECT of rollup_hour returns
rollup_rows(table, segment_key, hour_bucket) ==
    SelectSeq(table, LAMBDA row : is_qualifying(row, segment_key, hour_bucket))

\* rough and qual
rough_of(rows) == [i \in 1..Len(rows) |-> ToReal(rows[i]["road_roughness"]).n]

not_null_confidence(rows) == SelectSeq(rows, LAMBDA row : row["confidence"] # None)

qual_of(rows) == [i \in 1..Len(rows) |-> ToReal(rows[i]["confidence"]).n]

RECURSIVE sum(_)
sum(xs) == IF xs = <<>> THEN 0 ELSE Head(xs) + sum(Tail(xs))

last(xs) == xs[Len(xs)]

\* max(rough)
max_of(xs) == last(sorted(xs))

\* sum(xs) / len(xs)
mean(xs) == Real(sum(xs) \div Len(xs))

AVG_QUALITY_DEFAULT == 7000

avg_quality(qual) == IF qual = <<>> THEN Real(AVG_QUALITY_DEFAULT) ELSE mean(qual)

\* x or y, for floats: 0.0 is falsy
float_or(x, y) == IF x = None \/ x.n = 0 THEN y ELSE x

\* compute_confidence(n, avg_quality): a function of its arguments
compute_confidence(n, avg_q) == [fn |-> "compute_confidence", n |-> n, avg_quality |-> avg_q]

\* the row rollup_hour writes, from r50, r95 and avg_q
hourly_row_of(segment_key, hour_bucket, now_iso, rough, r50, r95, avg_q) ==
    [segment_key |-> segment_key, hour_bucket |-> hour_bucket, n_samples |-> Len(rough),
     avg_roughness |-> mean(rough), p50_roughness |-> r50, p95_roughness |-> r95,
     avg_quality |-> avg_q, score |-> compute_score(r50, r95),
     score_confidence |-> compute_confidence(Len(rough), avg_q),
     anomaly_flag |-> 0, updated_at |-> now_iso]

hourly_row(segment_key, hour_bucket, now_iso, rough, qual) ==
    hourly_row_of(segment_key, hour_bucket, now_iso, rough,
                  float_or(percentile(rough, 50), mean(rough)),
                  float_or(percentile(rough, 95), Real(max_of(rough))),
                  avg_quality(qual))

\* INSERT OR IGNORE: an existing row is kept
insert_or_ignore(table, k, row) == IF k \in DOMAIN table THEN table ELSE WithRow(table, k, row)

\* INSERT OR REPLACE INTO segment_hourly
insert_or_replace(table, k, row) == WithRow(table, k, row)

rollup_from(hourly, rows, segment_key, hour_bucket, now_iso) ==
    IF Len(rows) = 0 THEN hourly
    ELSE insert_or_replace(hourly, <<segment_key, hour_bucket>>,
                           hourly_row(segment_key, hour_bucket, now_iso, rough_of(rows),
                                      qual_of(not_null_confidence(rows))))

\* rollup_hour(con, segment_key, hour_bucket, now_iso): segment_hourly after the call
rollup_hour(hourly, table, segment_key, hour_bucket, now_iso) ==
    rollup_from(hourly, rollup_rows(table, segment_key, hour_bucket),
                segment_key, hour_bucket, now_iso)

MaxRecords == 3

HourPayload(grid_key, bucket_start, fields) ==
    ODict(<<<<"grid_key", Str(grid_key)>>, <<"bucket_start", Str(bucket_start)>>>> \o fields)

RollupPayloads ==
    {HourPayload("seg:a", "2026-01-01T00:10:00Z", <<<<"road_roughness", Num(0)>>>>),
     HourPayload("seg:a", "2026-01-01T00:20:00Z",
                 <<<<"road_roughness", Num(30)>>, <<"confidence", Num(80)>>>>),
     HourPayload("seg:a", "2026-01-01T00:30:00Z",
                 <<<<"road_roughness", Num(90)>>, <<"analyzable", Num(0)>>>>),
     HourPayload("seg:a", "2026-01-01T00:40:00Z", <<<<"shock_events", Num(200)>>>>),
     HourPayload("seg:a", "2026-01-01T01:05:00Z", <<<<"road_roughness", Num(50)>>>>),
     HourPayload("seg:b", "2026-01-01T00:15:00Z", <<<<"road_roughness", Num(60)>>>>)}

RollupKeys == {<<"seg:a", "2026-01-01T00">>, <<"seg:a", "2026-01-01T01">>,
               <<"seg:b", "2026-01-01T00">>}

RollupTimes == {"2026-01-02T00:00:00Z", "2026-01-03T00:00:00Z"}

InitRollup ==
    /\ IdleIngest
    /\ arg = None
    /\ out = None
    /\ calls = 0

\* a record is ingested
StoreRecord ==
    \E it \in RollupPayloads :
        /\ Len(metric_aggregates) < MaxRecords
        /\ request' = [endpoint |-> "/v1/ingest/aggregates", x_api_key |-> None,
                       data |-> it.od]
        /\ SingleAnswer(named_insert_metric(it.od, sqlite_sequence))
        /\ UNCHANGED <<arg, out, calls, derivedVars>>

\* rollup_hour is run and committed; out keeps the row it found for the key
RollupHour ==
    \E k \in RollupKeys, now_iso \in RollupTimes :
        /\ request' = [endpoint |-> "rollup_hour", segment_key |-> k[1],
                       hour_bucket |-> k[2], now_iso |-> now_iso]
        /\ out' = IF k \in DOMAIN segment_hourly THEN segment_hourly[k] ELSE None
        /\ segment_hourly' = rollup_hour(segment_hourly, metric_aggregates, k[1], k[2], now_iso)
        /\ UNCHANGED <<metric_aggregates, sqlite_sequence, response, arg, calls, API_KEY,
                       road_segments, road_scores, geocode_cache, payload_cache,
                       requests_sent, now>>

NextRollup == StoreRecord \/ RollupHour

SpecRollup == InitRollup /\ [][NextRollup]_vars

IsRollup(req) == "hour_bucket" \in DOMAIN req

\* the stored records that qualify for the rollup of (segment, hour): same
\* grid_key, same hour, analyzable = 1, road_roughness not null
QualifyingRecords(segment_key, hour_bucket) ==
    {i \in 1..Len(metric_aggregates) :
        /\ metric_aggregates[i]["grid_key"] = Str(segment_key)
        /\ SubSeq(metric_aggregates[i]["bucket_start"].s, 1, 13) = hour_bucket
        /\ metric_aggregates[i]["analyzable"] = Num(100)
        /\ metric_aggregates[i]["road_roughness"] # None}

\* their roughness values, in id order
RECURSIVE QualifyingRoughness(_, _, _)
QualifyingRoughness(segment_key, hour_bucket, i) ==
    IF i > Len(metric_aggregates) THEN <<>>
    ELSE (IF i \in QualifyingRecords(segment_key, hour_bucket)
          THEN <<metric_aggregates[i]["road_roughness"].n * 100>> ELSE <<>>)
         \o QualifyingRoughness(segment_key, hour_bucket, i + 1)

\* C12: a rollup_hour for a (segment, hour) without qualifying records leaves
\* segment_hourly as it is; a rollup that has some writes the row of that key
\* with n_samples equal to their number and leaves every other row alone.
C12_RollupCountsQualifying ==
    [][IsRollup(request') =>
           LET k == <<request'.segment_key, request'.hour_bucket>>
               n == Cardinality(QualifyingRecords(k[1], k[2]))
           IN  IF n = 0 THEN segment_hourly' = segment_hourly
               ELSE /\ DOMAIN segment_hourly' = DOMAIN segment_hourly \cup {k}
                    /\ segment_hourly'[k].n_samples = n
                    /\ \A j \in DOMAIN segment_hourly \ {k} :
                           segment_hourly'[j] = segment_hourly[j]]_vars

C12_Witness ==
    /\ IsRollup(request)
    /\ request.hour_bucket = "2026-01-01T01"
    /\ QualifyingRecords("seg:a", "2026-01-01T01") = {}
    /\ Len(metric_aggregates) = 3
    /\ \E i \in 1..3 : metric_aggregates[i]["analyzable"] = Num(0)
    /\ \E i \in 1..3 : metric_aggregates[i]["road_roughness"] = None
    /\ DOMAIN segment_hourly = {<<"seg:a", "2026-01-01T00">>}
    /\ segment_hourly[<<"seg:a", "2026-01-01T00">>].n_samples = 1

\* C13: after rollup_hour, running it again with the same arguments over the
\* same records leaves segment_hourly exactly as it is, and the row of the key
\* is the one a rollup over the current records writes into an empty table:
\* nothing of an earlier row survives.
C13_RollupIdempotent ==
    IsRollup(request) =>
        LET k == <<request.segment_key, request.hour_bucket>>
        IN  /\ rollup_hour(segment_hourly, metric_aggregates, k[1], k[2], request.now_iso)
                   = segment_hourly
            /\ QualifyingRecords(k[1], k[2]) # {} =>
                   /\ k \in DOMAIN segment_hourly
                   /\ segment_hourly[k] =
                          rollup_hour(EmptyTable, metric_aggregates, k[1], k[2],
                                      request.now_iso)[k]
                   /\ segment_hourly[k].n_samples = Cardinality(QualifyingRecords(k[1], k[2]))
                   /\ segment_hourly[k].updated_at = request.now_iso

C13_Witness ==
    /\ IsRollup(request)
    /\ out # None
    /\ out.n_samples = 1
    /\ out.updated_at = "2026-01-02T00:00:00Z"
    /\ segment_hourly[<<request.segment_key, request.hour_bucket>>].n_samples = 2
    /\ segment_hourly[<<request.segment_key, request.hour_bucket>>].updated_at
           = "2026-01-03T00:00:00Z"

\* C14 as stated: the p50_roughness and p95_roughness a rollup stores are the
\* interpolated percentiles of the qualifying roughness values, also when a
\* percentile is 0, and the score is compute_score of those two percentiles.
C14_StoredPercentiles ==
    (IsRollup(request) /\ QualifyingRecords(request.segment_key, request.hour_bucket) # {}) =>
        LET k == <<request.segment_key, request.hour_bucket>>
            values == QualifyingRoughness(k[1], k[2], 1)
        IN  /\ segment_hourly[k].p50_roughness = percentile(values, 50)
            /\ segment_hourly[k].p95_roughness = percentile(values, 95)
            /\ segment_hourly[k].score =
                   compute_score(percentile(values, 50), percentile(values, 95))

(***************************************************************************)
(* Geocode backfill (server/main.py).  A coordinate handed to the geocoder *)
(* is an integer number of millionths of a degree; a response body is the  *)
(* record [json |-> j] of the JSON value j it parses to.                   *)
(***************************************************************************)
\* an INTEGER column value
IntVal(n) == [t |-> "int", n |-> n]

\* float(r["lat"]) of a stored coordinate, in millionths of a degree
Micro(v) == v.n * 10000

\* n / d rounded to the nearest integer, a tie to the even one
round_div(n, d) ==
    IF 2 * (n % d) < d THEN n \div d
    ELSE IF 2 * (n % d) > d THEN n \div d + 1
    ELSE IF (n \div d) % 2 = 0 THEN n \div d ELSE n \div d + 1

\* f"{lat:.5f},{lon:.5f}", as the pair of the two rounded numbers
cache_key5(lat, lon) == <<round_div(lat, 10), round_div(lon, 10)>>

\* (j.get("address") or {})
address_of(j) == IF "address" \in DOMAIN j THEN j["address"] ELSE EmptyTable

addr_road(addr) ==
    Or(Get(addr, "road"), Or(Get(addr, "pedestrian"), Or(Get(addr, "path"),
       Or(Get(addr, "footway"), Get(addr, "cycleway")))))

addr_ref(addr) ==
    Or(Get(addr, "ref"), Or(Get(addr, "route"), Or(Get(addr, "highway"), None)))

addr_city(addr) ==
    Or(Get(addr, "city"), Or(Get(addr, "town"), Or(Get(addr, "village"),
       Get(addr, "hamlet"))))

\* the geocoder did not answer with a parsable 200 response
Failed == [ok |-> FALSE]

Body(j) == [ok |-> TRUE, json |-> j]

\* the row _reverse_geocode_cached inserts for the parsed response j
payload_row(key, lat, lon, j, addr, t) ==
    [key |-> key, lat |-> lat, lon |-> lon, payload |-> Body(j),
     road_name |-> addr_road(addr), hwy_ref |-> addr_ref(addr), state |-> Get(addr, "state"),
     county |-> Get(addr, "county"), city |-> addr_city(addr), fetched_at |-> t]

\* the request to the geocoder and what follows it
geocode_fetch(cache, key, lat, lon, answer, t) ==
    IF ~answer.ok THEN [raised |-> TRUE, cache |-> cache, sent |-> 1]
    ELSE [raised |-> FALSE, j |-> answer.json, sent |-> 1,
          cache |-> WithRow(cache, key,
                            payload_row(key, lat, lon, answer.json, address_of(answer.json), t))]

\* _reverse_geocode_cached(con, lat, lon) at time t, the geocoder answering with
\* answer if it is asked: the parsed response or the exception, the cache
\* afterwards and the number of requests sent
reverse_geocode_cached(cache, lat, lon, answer, t) ==
    IF cache_key5(lat, lon) \in DOMAIN cache /\ cache[cache_key5(lat, lon)].payload.ok
    THEN [raised |-> FALSE, j |-> cache[cache_key5(lat, lon)].payload.json, sent |-> 0,
          cache |-> cache]
    ELSE geocode_fetch(cache, cache_key5(lat, lon), lat, lon, answer, t)

\* the value of a column, NULL for a column added after the row was stored
Col(row, c) == IF c \in DOMAIN row THEN row[c] ELSE None

\* UPDATE ... SET the columns of rec
set_cols(row, rec) ==
    [c \in DOMAIN row \cup DOMAIN rec |-> IF c \in DOMAIN rec THEN rec[c] ELSE row[c]]

\* the geocoder: what it answers for a coordinate when it answers
Nominatim(lat, lon) ==
    CASE <<lat, lon>> = <<39000000, -105000000>> ->
             Body([address |-> [road |-> Str("Main St"), city |-> Str("Denver"),
                                state |-> Str("Colorado")]])
      [] <<lat, lon>> = <<40000000, -104000000>> ->
             Body([address |-> [ref |-> Str("US-6"), state |-> Str("Colorado")]])
      [] OTHER -> Body([error |-> Str("Unable to geocode")])

\* the backlog of admin_backfill_geocode: indexes of the rows it selects, newest first
RECURSIVE backlog_from(_, _, _)
needs_geocode(row) ==
    /\ Col(row, "road_name") \in {None, Str("")}
    /\ row["lat"] # None
    /\ row["lon"] # None

backlog_from(rows, i, limit) ==
    IF i = 0 \/ limit = 0 THEN <<>>
    ELSE IF needs_geocode(rows[i]) THEN <<i>> \o backlog_from(rows, i - 1, limit - 1)
    ELSE backlog_from(rows, i - 1, limit)

\* d of admin_backfill_geocode for a row and the address found
geocode_dict(row, addr) ==
    [lat |-> row["lat"], lon |-> row["lon"], road_name |-> addr_road(addr),
     hwy_ref |-> addr_ref(addr), state |-> Get(addr, "state"),
     county |-> Get(addr, "county"), city |-> addr_city(addr)]

\* the UPDATE of the row
geocoded_row(row, d, seg, t) ==
    set_cols(row, [road_name |-> d.road_name, hwy_ref |-> d.hwy_ref, state |-> d.state,
                   county |-> d.county, city |-> d.city, geocode_src |-> Str("nominatim"),
                   geocoded_at |-> IntVal(t), segment_id |-> Str(seg)])

\* the body of the loop after a lookup that returned: upsert_segment and UPDATE
backfill_found(st, i, d, look, t) ==
    [rows |-> [st.rows EXCEPT ![i] =
                   geocoded_row(st.rows[i], d,
                                make_segment_id(d.hwy_ref, d.road_name, d.state), t)],
     segments |-> upsert_segment(st.segments, d, t),
     cache |-> look.cache, sent |-> st.sent + look.sent, updated |-> st.updated + 1]

\* one turn of a loop that marks a row whose lookup failed as geocoded
backfill_looked_marked(st, i, look, t) ==
    IF look.raised
    THEN [st EXCEPT !.sent = st.sent + look.sent,
                    !.rows[i] = set_cols(st.rows[i], [geocode_src |-> Str("nominatim"),
                                                      geocoded_at |-> IntVal(t)])]
    ELSE backfill_found(st, i, geocode_dict(st.rows[i], address_of(look.j)), look, t)

\* one turn of the loop: an exception skips the row
backfill_looked(st, i, look, t) ==
    IF look.raised THEN [st EXCEPT !.sent = st.sent + look.sent]
    ELSE backfill_found(st, i, geocode_dict(st.rows[i], address_of(look.j)), look, t)

backfill_answer(lat, lon, down) ==
    IF cache_key5(lat, lon) \in down THEN Failed ELSE Nominatim(lat, lon)

backfill_row(st, i, down, t) ==
    backfill_looked(st, i,
                    reverse_geocode_cached(st.cache, Micro(st.rows[i]["lat"]),
                                           Micro(st.rows[i]["lon"]),
                                           backfill_answer(Micro(st.rows[i]["lat"]),
                                                           Micro(st.rows[i]["lon"]), down),
                                           t),
                    t)

\* the loop of admin_backfill_geocode over the backlog, the geocoder failing for
\* the keys in down
RECURSIVE backfill_loop(_, _, _, _)
backfill_loop(st, todo, down, t) ==
    IF todo = <<>> THEN st
    ELSE backfill_loop(backfill_row(st, Head(todo), down, t), Tail(todo), down, t)

(***************************************************************************)
(* Segment scores (server/roadscore.py)                                    *)
(***************************************************************************)
MIN_ROWS == 5
SHOCK_CAP == 200000

\* a WHERE clause that takes rows of any age
in_any_window(row, since_ts) ==
    /\ Col(row, "geocoded_at") # None
    /\ row["analyzable"] \in {None, Num(100)}

\* the WHERE clause of recompute_scores
in_window(row, since_ts) ==
    /\ Col(row, "geocoded_at") # None
    /\ Col(row, "geocoded_at").n >= since_ts
    /\ row["analyzable"] \in {None, Num(100)}

scorable(row, since_ts) ==
    /\ in_window(row, since_ts)
    /\ Col(row, "segment_id") \notin {None, Str("")}

\* the rows of a group
group_rows(rows, seg, since_ts) ==
    SelectSeq(rows, LAMBDA row : scorable(row, since_ts) /\ row["segment_id"] = Str(seg))

\* GROUP BY segment_id HAVING n >= 5
scored_groups(rows, since_ts) ==
    {seg \in {rows[i]["segment_id"].s : i \in {j \in 1..Len(rows) : scorable(rows[j], since_ts)}} :
        Len(group_rows(rows, seg, since_ts)) >= MIN_ROWS}

\* the non-null values of a column, as floats
column_values(rows, c) ==
    [i \in 1..Len(SelectSeq(rows, LAMBDA row : row[c] # None)) |->
        ToReal(SelectSeq(rows, LAMBDA row : row[c] # None)[i][c]).n]

\* AVG(CASE WHEN c IS NOT NULL THEN c END)
avg_or_null(xs) == IF xs = <<>> THEN None ELSE mean(xs)

\* int(round(0.95 * (n - 1)))
rank95(n) == round_div(95 * (n - 1), 100)

\* p95_shocks(seg), over the sorted shock counts
p95_of(vals) ==
    IF vals = <<>> THEN None
    ELSE Real(vals[Max(0, Min(rank95(Len(vals)), Len(vals) - 1)) + 1])

\* the rows p95_shocks selects
shock_rows(rows, seg, since_ts) ==
    SelectSeq(rows, LAMBDA row : in_window(row, since_ts) /\ Col(row, "segment_id") = Str(seg))

p95_shocks(rows, seg, since_ts) ==
    p95_of(sorted(column_values(shock_rows(rows, seg, since_ts), "shock_events")))

\* x if x is not None else y
if_null(x, y) == IF x = None THEN y ELSE x

\* score = (rm * 100.0) + (min(s95, 20.0) * 2.5), then the confidence penalty
base_score(rm, s95) == rm.n * 100 + (Min(s95.n, SHOCK_CAP) * 25) \div 10

\* score * (1.0 + max(0.0, 0.9 - cm) * 0.25); score is a multiple of 0.005
penalized(score, cm) == Real(score + ((score \div 50) * Max(0, 9000 - cm.n)) \div 800)

score_row_of(seg, window_days, n, rm, s95, cm, t) ==
    [segment_id |-> seg, window_days |-> window_days, rows_used |-> n,
     score |-> penalized(base_score(rm, s95), cm), roughness_mean |-> rm, shock_p95 |-> s95,
     confidence_mean |-> cm, updated_at |-> t]

score_row(rows, seg, window_days, since_ts, t) ==
    score_row_of(seg, window_days, Len(group_rows(rows, seg, since_ts)),
                 if_null(avg_or_null(column_values(group_rows(rows, seg, since_ts),
                                                   "road_roughness")), Real(0)),
                 if_null(p95_shocks(rows, seg, since_ts), Real(0)),
                 if_null(avg_or_null(column_values(group_rows(rows, seg, since_ts),
                                                   "confidence")), Real(10000)),
                 t)

\* INSERT INTO road_scores ... ON CONFLICT(segment_id) DO UPDATE SET every column
upsert_scores(scores, rows, segs, window_days, since_ts, t) ==
    [seg \in DOMAIN scores \cup segs |->
        IF seg \in segs THEN score_row(rows, seg, window_days, since_ts, t) ELSE scores[seg]]

RECURSIVE sum_over(_, _)
sum_over(f, S) ==
    IF S = {} THEN 0
    ELSE LET x == CHOOSE y \in S : TRUE IN f[x].rows_used + sum_over(f, S \ {x})

\* recompute_scores(con, window_days) at time t: road_scores afterwards
recompute_scores(scores, rows, window_days, t) ==
    upsert_scores(scores, rows, scored_groups(rows, t - window_days * DAY), window_days,
                  t - window_days * DAY, t)

\* what recompute_scores returns
recompute_result(scores, segs, window_days) ==
    [roads_scored |-> Cardinality(segs), rows_used |-> sum_over(scores, segs),
     window_days |-> window_days]

TOP_WINDOW == 7

\* the segments top_roads joins: a score row of the 7-day window, a segment row
\* and, when a state is given, that state in any case
top_roads_matching(scores, segments, state) ==
    {seg \in DOMAIN scores \cap DOMAIN segments :
        /\ scores[seg].window_days = TOP_WINDOW
        /\ Truthy(state) => upper(Or(segments[seg].state, Str("")).s) = upper(state.s)}

\* road_detail(con, segment_id)
road_detail(scores, segments, seg) ==
    IF seg \notin DOMAIN segments THEN [segment_id |-> seg, found |-> FALSE]
    ELSE [found |-> TRUE, segment |-> segments[seg],
          scores |-> IF seg \in DOMAIN scores THEN <<scores[seg]>> ELSE <<>>]

MaxScoreRows == 5
MaxRequests == 1

ScorePayloads ==
    {ODict(<<<<"lat", Num(3900)>>, <<"lon", Num(-10500)>>, <<"road_roughness", Num(40)>>,
             <<"shock_events", Num(200)>>>>),
     ODict(<<<<"lat", Num(3900)>>, <<"lon", Num(-10500)>>, <<"road_roughness", Num(90)>>,
             <<"confidence", Num(50)>>, <<"analyzable", Num(0)>>>>)}

GeocoderKeys == {cache_key5(39000000, -105000000)}

InitScores ==
    /\ IdleIngest
    /\ arg = None
    /\ out = None
    /\ calls = 0

\* a record with coordinates is ingested
StoreCoord ==
    \E it \in ScorePayloads :
        /\ Len(metric_aggregates) < MaxScoreRows
        /\ request' = [endpoint |-> "/v1/ingest/aggregates", x_api_key |-> None,
                       data |-> it.od]
        /\ SingleAnswer(named_insert_metric(it.od, sqlite_sequence))
        /\ UNCHANGED <<arg, out, calls, derivedVars>>

\* the tables after the loop of admin_backfill_geocode are committed and the
\* request is answered
BackfillCommit(st, queued) ==
    /\ metric_aggregates' = st.rows
    /\ road_segments' = st.segments
    /\ payload_cache' = st.cache
    /\ requests_sent' = st.sent
    /\ response' = [status |-> 200, ok |-> TRUE, updated |-> st.updated, queued |-> queued]

BackfillAnswer(st, queued) ==
    /\ st.sent <= MaxRequests
    /\ BackfillCommit(st, queued)

\* GET or POST /admin/api/backfill_geocode, the geocoder failing for the keys in down
BackfillGeocode ==
    \E down \in SUBSET GeocoderKeys :
        /\ request' = [endpoint |-> "/admin/api/backfill_geocode", limit |-> 200, down |-> down]
        /\ BackfillAnswer(backfill_loop([rows |-> metric_aggregates, segments |-> road_segments,
                                         cache |-> payload_cache, sent |-> requests_sent,
                                         updated |-> 0],
                                        backlog_from(metric_aggregates,
                                                     Len(metric_aggregates), 200),
                                        down, now),
                          Len(backlog_from(metric_aggregates, Len(metric_aggregates), 200)))
        /\ UNCHANGED <<sqlite_sequence, arg, out, calls, API_KEY, road_scores, segment_hourly,
                       geocode_cache, now>>

\* recompute_scores(con, window_days) is run
RecomputeScores ==
    \E window_days \in {1, TOP_WINDOW} :
        /\ request' = [endpoint |-> "recompute_scores", window_days |-> window_days]
        /\ road_scores' = recompute_scores(road_scores, metric_aggregates, window_days, now)
        /\ response' = recompute_result(road_scores',
                                        scored_groups(metric_aggregates, now - window_days * DAY),
                                        window_days)
        /\ UNCHANGED <<metric_aggregates, sqlite_sequence, arg, out, calls, API_KEY,
                       road_segments, segment_hourly, geocode_cache, payload_cache,
                       requests_sent, now>>

NextScores == StoreCoord \/ BackfillGeocode \/ RecomputeScores \/ Tick

SpecScores == InitScores /\ [][NextScores]_vars

IsRecompute(req) == "window_days" \in DOMAIN req

\* the segments some record is resolved to
ResolvedSegments ==
    {Col(metric_aggregates[i], "segment_id").s :
        i \in {j \in 1..Len(metric_aggregates) :
                   Col(metric_aggregates[j], "segment_id") \notin {None, Str("")}}}

\* the records of a segment that qualify for a window ending now: resolved to
\* the segment, geocoded inside the window, analyzable
QualifyingRows(seg, window_days) ==
    {i \in 1..Len(metric_aggregates) :
        /\ Col(metric_aggregates[i], "segment_id") = Str(seg)
        /\ Col(metric_aggregates[i], "geocoded_at") # None
        /\ Col(metric_aggregates[i], "geocoded_at").n >= now - window_days * DAY
        /\ metric_aggregates[i]["analyzable"] = Num(100)}

DetailScores(scores, segments, seg) ==
    {road_detail(scores, segments, seg).scores[i] :
        i \in 1..Len(road_detail(scores, segments, seg).scores)}

\* C18: a recompute_scores for one window keeps the score row a segment has
\* for another window: road_detail still lists that row next to the new one,
\* and a segment top_roads returned is still returned.
C18_OneRowPerWindow ==
    [][IsRecompute(request') /\ now' = now =>
           \A seg \in DOMAIN road_scores \cap DOMAIN road_segments :
               road_scores[seg].window_days # request'.window_days =>
                   /\ road_scores[seg] \in DetailScores(road_scores', road_segments', seg)
                   /\ seg \in top_roads_matching(road_scores, road_segments, None) =>
                          seg \in top_roads_matching(road_scores', road_segments', None)]_vars

(***************************************************************************)
(* Geocode lookups (server/geocode.py), over the geocode_cache table with  *)
(* the columns reverse_geocode_short reads and writes.  A response of the  *)
(* geocoder is [status |-> n] with the parsed body in json when n = 200.   *)
(***************************************************************************)
\* f"{lat:.4f},{lon:.4f}", as the pair of the two rounded numbers
cache_key4(lat, lon) == <<round_div(lat, 100), round_div(lon, 100)>>

\* data.get("address", {}) or {}
short_address(data) ==
    IF "address" \in DOMAIN data /\ DOMAIN data["address"] # {} THEN data["address"]
    ELSE EmptyTable

short_road(addr) ==
    Or(Get(addr, "road"), Or(Get(addr, "pedestrian"), Or(Get(addr, "path"),
       Get(addr, "footway"))))

\* parts
short_parts(road, city, state) ==
    (IF Truthy(road) THEN <<road.s>> ELSE <<>>)
    \o (IF Truthy(city) /\ Truthy(state) THEN <<city.s \o ", " \o state.s>>
        ELSE IF Truthy(city) THEN <<city.s>>
        ELSE IF Truthy(state) THEN <<state.s>>
        ELSE <<>>)

\* sep.join(parts)
RECURSIVE join_with(_, _)
join_with(sep, parts) ==
    IF Len(parts) = 1 THEN parts[1] ELSE parts[1] \o sep \o join_with(sep, Tail(parts))

\* the separator of a short location, a bullet between two blanks
BULLET == " * "

\* " • ".join(parts) if parts else None
short_location(parts) == IF parts = <<>> THEN None ELSE Str(join_with(BULLET, parts))

\* the row written and returned after a 200 response
short_row(k, now_z, addr) ==
    [key |-> k, created_at |-> Str(now_z), road |-> short_road(addr),
     house_number |-> Get(addr, "house_number"), city |-> addr_city(addr),
     state |-> Get(addr, "state"), postcode |-> Get(addr, "postcode"),
     short_location |-> short_location(short_parts(short_road(addr), addr_city(addr),
                                                   Get(addr, "state")))]

\* a hit answers with any row of the key, whatever its short_location
short_hit_any(cache, k) == k \in DOMAIN cache

\* if row and row["short_location"]
short_hit(cache, k) == k \in DOMAIN cache /\ Truthy(cache[k].short_location)

\* the request to the geocoder and what follows it
short_fetch(cache, k, r, now_z) ==
    IF r.status # 200 THEN [result |-> None, sent |-> 1, cache |-> cache]
    ELSE [result |-> short_row(k, now_z, short_address(r.json)), sent |-> 1,
          cache |-> WithRow(cache, k, short_row(k, now_z, short_address(r.json)))]

\* reverse_geocode_short(lat, lon), the geocoder answering r if it is asked:
\* what is returned, the number of requests sent and the cache afterwards
reverse_geocode_short(cache, lat, lon, r, now_z) ==
    IF short_hit(cache, cache_key4(lat, lon))
    THEN [result |-> cache[cache_key4(lat, lon)], sent |-> 0, cache |-> cache]
    ELSE short_fetch(cache, cache_key4(lat, lon), r, now_z)

MaxSent == 3

GeocodeLats == {39000010, 39000011, 39000200}
GeocodeLons == {-105000000}

GeocodeTimes == {utc_now, "2026-01-01T01:00:00Z"}

\* the bodies the geocoder answers with: a full address, a place with no
\* road, city or state, and an error body
GeocodeBodies ==
    {[address |-> [road |-> Str("Main St"), city |-> Str("Denver"),
                   state |-> Str("Colorado"), postcode |-> Str("80202")]],
     [address |-> [country |-> Str("United States")]],
     [error |-> Str("Unable to geocode")]}

GeocodeResponses == {[status |-> 500]} \cup {[status |-> 200, json |-> j] : j \in GeocodeBodies}

InitGeocode ==
    /\ IdleIngest
    /\ arg = None
    /\ out = None
    /\ calls = 0

ShortAnswer(res) ==
    /\ requests_sent + res.sent <= MaxSent
    /\ requests_sent' = requests_sent + res.sent
    /\ geocode_cache' = res.cache
    /\ response' = res.result

\* reverse_geocode_short(lat, lon) is called
ReverseGeocodeShort ==
    \E lat \in GeocodeLats, lon \in GeocodeLons, r \in GeocodeResponses,
       now_z \in GeocodeTimes :
        /\ request' = [endpoint |-> "reverse_geocode_short", lat |-> lat, lon |-> lon]
        /\ ShortAnswer(reverse_geocode_short(geocode_cache, lat, lon, r, now_z))
        /\ UNCHANGED <<metric_aggregates, sqlite_sequence, arg, out, calls, API_KEY,
                       road_segments, road_scores, segment_hourly, payload_cache, now>>

CachedAnswer(res) ==
    /\ requests_sent + res.sent <= MaxSent
    /\ requests_sent' = requests_sent + res.sent
    /\ payload_cache' = res.cache
    /\ response' = IF res.raised THEN Failed ELSE Body(res.j)

\* _reverse_geocode_cached(con, lat, lon) is called
ReverseGeocodeCached ==
    \E lat \in GeocodeLats, lon \in GeocodeLons,
       answer \in {Failed} \cup {Body(j) : j \in GeocodeBodies} :
        /\ request' = [endpoint |-> "_reverse_geocode_cached", lat |-> lat,
                       lon |-> lon]
        /\ CachedAnswer(reverse_geocode_cached(payload_cache, lat, lon, answer, now))
        /\ UNCHANGED <<metric_aggregates, sqlite_sequence, arg, out, calls, API_KEY,
                       road_segments, road_scores, segment_hourly, geocode_cache, now>>

NextGeocode == ReverseGeocodeShort \/ ReverseGeocodeCached

SpecGeocode == InitGeocode /\ [][NextGeocode]_vars

IsShortLookup(req) == "endpoint" \in DOMAIN req /\ req.endpoint = "reverse_geocode_short"
IsCachedLookup(req) == "endpoint" \in DOMAIN req /\ req.endpoint = "_reverse_geocode_cached"

\* C19 for _reverse_geocode_cached: a lookup of a key that is in the cache
\* sends no request and returns the cached response.
CachedLookupShortCircuits ==
    [][IsCachedLookup(request')
       /\ cache_key5(request'.lat, request'.lon) \in DOMAIN payload_cache =>
           /\ requests_sent' = requests_sent
           /\ payload_cache' = payload_cache
           /\ response' = payload_cache[cache_key5(request'.lat, request'.lon)].payload]_vars

\* C19: once a lookup of a key was answered with a 200 response, so that the
\* key is in the cache, a later lookup of a coordinate with that key sends
\* no request and returns the cached row, whatever the row holds; for
\* reverse_geocode_short and for _reverse_geocode_cached alike.
C19_HitShortCircuits ==
    [][/\ IsShortLookup(request')
          /\ cache_key4(request'.lat, request'.lon) \in DOMAIN geocode_cache =>
              /\ requests_sent' = requests_sent
              /\ geocode_cache' = geocode_cache
              /\ response' = geocode_cache[cache_key4(request'.lat, request'.lon)]
       /\ IsCachedLookup(request')
          /\ cache_key5(request'.lat, request'.lon) \in DOMAIN payload_cache =>
              /\ requests_sent' = requests_sent
              /\ response' = payload_cache[cache_key5(request'.lat, request'.lon)].payload]_vars

(***************************************************************************)
(* The write endpoints with an API key configured (server/main.py)         *)
(***************************************************************************)
MaxAuthRows == 3

\* the values of ROADSTATE_API_KEY: unset, or a key
ApiKeys == {"", "s3cret"}

\* the x-api-key header of a request: absent, another key, the key
Headers == {None, Str("wrong"), Str("s3cret")}

AuthPayloads ==
    {ODict(<<<<"lat", Num(4500)>>, <<"lon", Num(-10000)>>>>),
     ODict(<<<<"node_id", Str("dev-2")>>, <<"road_roughness", Num(60)>>,
             <<"confidence", Num(20)>>>>)}

AuthItemLists == {<<>>} \cup {<<it>> : it \in AuthPayloads}

InitAuth ==
    /\ metric_aggregates = <<>>
    /\ sqlite_sequence = 0
    /\ request = None
    /\ response = None
    /\ arg = None
    /\ out = None
    /\ calls = 0
    /\ API_KEY \in ApiKeys
    /\ road_segments = EmptyTable
    /\ road_scores = EmptyTable
    /\ segment_hourly = EmptyTable
    /\ geocode_cache = EmptyTable
    /\ payload_cache = EmptyTable
    /\ requests_sent = 0
    /\ now = 0

\* POST /v1/ingest/aggregates with a single aggregate object and a header
KeyedIngestSingle ==
    \E it \in AuthPayloads, k \in Headers :
        /\ Len(metric_aggregates) < MaxAuthRows
        /\ request' = [endpoint |-> "/v1/ingest/aggregates", x_api_key |-> k, data |-> it.od]
        /\ IF ~require_key(k)
           THEN Raise(401, "Invalid API key")
           ELSE SingleAnswer(named_insert_metric(it.od, sqlite_sequence))
        /\ UNCHANGED <<arg, out, calls, derivedVars>>

\* POST /v1/ingest/aggregates with {"items": [...]} and a header
KeyedIngestBatch ==
    \E items \in AuthItemLists, k \in Headers :
        /\ Len(metric_aggregates) + Len(items) <= MaxAuthRows
        /\ request' = [endpoint |-> "/v1/ingest/aggregates", x_api_key |-> k,
                       base |-> <<>>, items |-> items]
        /\ IF ~require_key(k)
           THEN Raise(401, "Invalid API key")
           ELSE BatchAnswer(insert_items(<<>>, items, 1, <<>>))
        /\ UNCHANGED <<arg, out, calls, derivedVars>>

\* POST /v1/verify/ingest
VerifyIngest ==
    \E it \in AuthPayloads, k \in Headers :
        /\ Len(metric_aggregates) < MaxAuthRows
        /\ request' = [endpoint |-> "/v1/verify/ingest", x_api_key |-> k, data |-> it.od]
        /\ SingleAnswer(named_insert_metric(it.od, sqlite_sequence))
        /\ UNCHANGED <<arg, out, calls, derivedVars>>

NextAuth == KeyedIngestSingle \/ KeyedIngestBatch \/ VerifyIngest

SpecAuth == InitAuth /\ [][NextAuth]_vars

\* the request carries the configured key in its x-api-key header
HasMatchingKey(req) == req.x_api_key = Str(API_KEY)

\* the part of C20 about POST /v1/ingest/aggregates
IngestRequiresKey ==
    [][API_KEY # "" /\ request'.endpoint = "/v1/ingest/aggregates"
       /\ ~HasMatchingKey(request') =>
           /\ metric_aggregates' = metric_aggregates
           /\ response'.status = 401]_vars

\* C20: with an API key configured, a request to a write endpoint
\* (/v1/ingest/aggregates, /v1/verify/ingest) without the matching x-api-key
\* header is answered 401 and inserts no record.
C20_NoInsertWithoutKey ==
    [][API_KEY # "" /\ ~HasMatchingKey(request') =>
           /\ metric_aggregates' = metric_aggregates
           /\ response'.status = 401]_vars


(***************************************************************************)
(* Rollups whose hour_bucket argument is spelled in more than one way      *)
(***************************************************************************)
\* two spellings of one clock hour, and another hour
HourSpellings ==
    {<<"seg:a", "2026-01-01T00">>, <<"seg:a", "2026-01-01T00:00:00Z">>,
     <<"seg:a", "2026-01-01T01">>}

\* rollup_hour is run and committed with an hour_bucket of either spelling
RollupSpelled ==
    \E k \in HourSpellings :
        /\ request' = [endpoint |-> "rollup_hour", segment_key |-> k[1],
                       hour_bucket |-> k[2], now_iso |-> "2026-01-02T00:00:00Z"]
        /\ segment_hourly' = rollup_hour(segment_hourly, metric_aggregates, k[1], k[2],
                                         "2026-01-02T00:00:00Z")
        /\ UNCHANGED <<metric_aggregates, sqlite_sequence, response, arg, out, calls, API_KEY,
                       road_segments, road_scores, geocode_cache, payload_cache,
                       requests_sent, now>>

NextHours == StoreRecord \/ RollupSpelled

SpecHours == InitRollup /\ [][NextHours]_vars

\* C21: segment_hourly holds at most one row per segment and clock hour: two
\* rows of one segment whose hour_bucket values agree on their first 13
\* characters are the same row.
C21_OneRowPerClockHour ==
    \A k1, k2 \in DOMAIN segment_hourly :
        k1[1] = k2[1] /\ substr13(k1[2]) = substr13(k2[2]) => k1 = k2


(***************************************************************************)
(* The shock term of a segment score (server/roadscore.py)                 *)
(***************************************************************************)
MaxShocks == 5

\* shock counts 0, 10 and 30, as floats
ShockCounts == {0, 100000, 300000}

ShockLists == UNION {[1..n -> ShockCounts] : n \in 0..MaxShocks}

\* min(s95, 20.0) * 2.5
shock_term(s95) == base_score(Real(0), s95)

InitShock ==
    /\ IdleIngest
    /\ arg \in ShockLists
    /\ out = None
    /\ calls = 0

\* p95_shocks over the shock counts of a segment, and the term of the score
ShockP95 ==
    /\ calls = 0
    /\ out' = [s95 |-> if_null(p95_of(sorted(arg)), Real(0)),
               term |-> shock_term(if_null(p95_of(sorted(arg)), Real(0)))]
    /\ calls' = 1
    /\ UNCHANGED <<metric_aggregates, sqlite_sequence, request, response, arg, derivedVars>>

NextShock == ShockP95

SpecShock == InitShock /\ [][NextShock]_vars

\* the part of C22 about the cap: the shock term is never above 50
ShockTermCapped == calls = 1 => out.term <= 500000

\* C22: the shock p95 of a segment is the linear-interpolated 95th percentile
\* of its shock counts, as percentile computes it, and the shock term
\* min(shock_p95, 20) * 2.5 is never above 50.
C22_ShockP95Interpolated ==
    calls = 1 =>
        /\ out.s95 = if_null(percentile(arg, 95), Real(0))
        /\ out.term <= 500000


(***************************************************************************)
(* Scores after records are deleted (server/main.py, server/roadscore.py)  *)
(***************************************************************************)
\* DELETE FROM metric_aggregates WHERE id = ?
delete_row(rows, row_id) == SelectSeq(rows, LAMBDA row : row["id"] # row_id)

\* a scorable record is ingested
StoreScorable ==
    \E it \in {p \in ScorePayloads : "analyzable" \notin KeysOf(p.od)} :
        /\ sqlite_sequence < MaxScoreRows
        /\ request' = [endpoint |-> "/v1/ingest/aggregates", x_api_key |-> None,
                       data |-> it.od]
        /\ SingleAnswer(named_insert_metric(it.od, sqlite_sequence))
        /\ UNCHANGED <<arg, out, calls, derivedVars>>

\* DELETE /admin/api/rows/{row_id}, the admin credentials not configured
AdminDeleteRow ==
    \E row_id \in 1..MaxScoreRows :
        /\ request' = [endpoint |-> "/admin/api/rows", method |-> "DELETE", row_id |-> row_id]
        /\ metric_aggregates' = delete_row(metric_aggregates, row_id)
        /\ response' = [status |-> 200, ok |-> TRUE]
        /\ UNCHANGED <<sqlite_sequence, arg, out, calls, derivedVars>>

NextStale == StoreScorable \/ BackfillGeocode \/ RecomputeScores \/ AdminDeleteRow

SpecStale == InitScores /\ [][NextStale]_vars

\* C23: when recompute_scores(7) has just completed, every segment top_roads
\* returns has at least 5 qualifying records in the window.
C23_TopRoadsAreCurrent ==
    IsRecompute(request) /\ request.window_days = TOP_WINDOW =>
        \A seg \in top_roads_matching(road_scores, road_segments, None) :
            Cardinality(QualifyingRows(seg, TOP_WINDOW)) >= 5


(***************************************************************************)
(* Backfill runs over records at two coordinates, the geocoder failing for *)
(* some of them (server/main.py)                                           *)
(***************************************************************************)
MaxBackfillRows == 3
MaxBackfillSent == 4

BackfillPayloads ==
    {ODict(<<<<"lat", Num(3900)>>, <<"lon", Num(-10500)>>, <<"road_roughness", Num(40)>>>>),
     ODict(<<<<"lat", Num(4000)>>, <<"lon", Num(-10400)>>, <<"road_roughness", Num(40)>>>>)}

BackfillKeys == {cache_key5(39000000, -105000000), cache_key5(40000000, -104000000)}

\* a record with coordinates is ingested
StoreBacklog ==
    \E it \in BackfillPayloads :
        /\ Len(metric_aggregates) < MaxBackfillRows
        /\ request' = [endpoint |-> "/v1/ingest/aggregates", x_api_key |-> None,
                       data |-> it.od]
        /\ SingleAnswer(named_insert_metric(it.od, sqlite_sequence))
        /\ UNCHANGED <<arg, out, calls, derivedVars>>

BackfillCapped(st, queued) ==
    /\ st.sent <= MaxBackfillSent
    /\ BackfillCommit(st, queued)

\* GET or POST /admin/api/backfill_geocode, the geocoder failing for the keys in down
BackfillSome ==
    \E down \in SUBSET BackfillKeys :
        /\ request' = [endpoint |-> "/admin/api/backfill_geocode", limit |-> 200, down |-> down]
        /\ BackfillCapped(backfill_loop([rows |-> metric_aggregates, segments |-> road_segments,
                                         cache |-> payload_cache, sent |-> requests_sent,
                                         updated |-> 0],
                                        backlog_from(metric_aggregates,
                                                     Len(metric_aggregates), 200),
                                        down, now),
                          Len(backlog_from(metric_aggregates, Len(metric_aggregates), 200)))
        /\ UNCHANGED <<sqlite_sequence, arg, out, calls, API_KEY, road_scores, segment_hourly,
                       geocode_cache, now>>

NextBackfill == StoreBacklog \/ BackfillSome

SpecBackfill == InitScores /\ [][NextBackfill]_vars

IsBackfill(req) == "down" \in DOMAIN req

\* the key of the coordinates of a stored record
KeyOf(row) == cache_key5(row["lat"].n * 10000, row["lon"].n * 10000)

\* the records a run selects: no road name yet, coordinates present
Backlog ==
    {i \in 1..Len(metric_aggregates) :
        /\ Col(metric_aggregates[i], "road_name") \in {None, Str("")}
        /\ metric_aggregates[i]["lat"] # None
        /\ metric_aggregates[i]["lon"] # None}

\* the selected records whose lookup fails in a run: not cached, geocoder down
FailingIn(down) ==
    {i \in Backlog : KeyOf(metric_aggregates[i]) \in down \ DOMAIN payload_cache}

\* C24: in a backfill run, a record whose lookup fails is left exactly as it
\* was and is selected again by a later run; its lookup is made once; every
\* other selected record is geocoded in the same run.
C24_FailedLookupDefers ==
    [][IsBackfill(request') =>
           LET failing == FailingIn(request'.down)
               fetched == {KeyOf(metric_aggregates[i]) : i \in Backlog \ failing}
                              \ DOMAIN payload_cache
           IN  /\ \A i \in failing :
                      /\ metric_aggregates'[i] = metric_aggregates[i]
                      /\ needs_geocode(metric_aggregates'[i])
               /\ \A i \in Backlog \ failing :
                      /\ Col(metric_aggregates'[i], "geocoded_at") = IntVal(now)
                      /\ Col(metric_aggregates'[i], "segment_id") \notin {None, Str("")}
               /\ \A i \in (1..Len(metric_aggregates)) \ Backlog :
                      metric_aggregates'[i] = metric_aggregates[i]
               /\ requests_sent' = requests_sent + Cardinality(failing) + Cardinality(fetched)
               /\ response'.updated = Cardinality(Backlog \ failing)
               /\ response'.queued = Cardinality(Backlog)]_vars

\* a run in which the lookup of one record failed and a record handled after
\* it was geocoded
C24_Witness ==
    /\ IsBackfill(request)
    /\ request.down # {}
    /\ response.queued = 3
    /\ response.updated = 1
    /\ Len(metric_aggregates) = 3
    /\ needs_geocode(metric_aggregates[3])
    /\ needs_geocode(metric_aggregates[2])
    /\ Col(metric_aggregates[1], "segment_id") \notin {None, Str("")}
    /\ requests_sent = 3


(***************************************************************************)
(* Two rollup_hour runs for one (segment, hour), each on a connection of   *)
(* its own, next to ingestion (server/db.py).  Here arg holds the runs     *)
(* (where each is, the table its SELECT saw, the row it holds in its open  *)
(* transaction, the rank of its commit), out the run holding the write     *)
(* lock of the database (0 when free) and calls the number of commits.     *)
(***************************************************************************)
Runs == {1, 2}

RunKey == <<"seg:a", "2026-01-01T00">>

\* now_iso of each run
RunTime(r) == IF r = 1 THEN "2026-01-02T00:00:00Z" ELSE "2026-01-03T00:00:00Z"

RunPayloads ==
    {HourPayload("seg:a", "2026-01-01T00:20:00Z",
                 <<<<"road_roughness", Num(30)>>, <<"confidence", Num(80)>>>>),
     HourPayload("seg:a", "2026-01-01T00:40:00Z", <<<<"road_roughness", Num(90)>>>>)}

InitRuns ==
    /\ IdleIngest
    /\ arg = [r \in Runs |-> [pc |-> "start", table |-> <<>>, order |-> 0]]
    /\ out = 0
    /\ calls = 0

\* a record is ingested and committed while no run holds the write lock
StoreDuring ==
    \E it \in RunPayloads :
        /\ out = 0
        /\ Len(metric_aggregates) < MaxRecords
        /\ request' = [endpoint |-> "/v1/ingest/aggregates", x_api_key |-> None,
                       data |-> it.od]
        /\ SingleAnswer(named_insert_metric(it.od, sqlite_sequence))
        /\ UNCHANGED <<arg, out, calls, derivedVars>>

\* the SELECT of a run
RunSelect(r) ==
    /\ arg[r].pc = "start"
    /\ arg' = [arg EXCEPT ![r] = [@ EXCEPT !.pc = "selected", !.table = metric_aggregates]]
    /\ UNCHANGED <<metric_aggregates, sqlite_sequence, request, response, out, calls,
                   derivedVars>>

\* n == 0: the run returns without writing
RunReturn(r) ==
    /\ arg[r].pc = "selected"
    /\ Len(rollup_rows(arg[r].table, RunKey[1], RunKey[2])) = 0
    /\ arg' = [arg EXCEPT ![r] = [@ EXCEPT !.pc = "returned"]]
    /\ UNCHANGED <<metric_aggregates, sqlite_sequence, request, response, out, calls,
                   derivedVars>>

\* the INSERT OR REPLACE of a run: it takes the write lock, its row stays in
\* its transaction
RunInsert(r) ==
    /\ arg[r].pc = "selected"
    /\ Len(rollup_rows(arg[r].table, RunKey[1], RunKey[2])) > 0
    /\ out = 0
    /\ out' = r
    /\ arg' = [arg EXCEPT ![r] = [@ EXCEPT !.pc = "inserted"]]
    /\ UNCHANGED <<metric_aggregates, sqlite_sequence, request, response, calls, derivedVars>>

\* the INSERT OR REPLACE of a run gives up on the lock of the other run
\* (database is locked): the exception ends the run
RunBusy(r) ==
    /\ arg[r].pc = "selected"
    /\ Len(rollup_rows(arg[r].table, RunKey[1], RunKey[2])) > 0
    /\ out \in Runs \ {r}
    /\ arg' = [arg EXCEPT ![r] = [@ EXCEPT !.pc = "failed"]]
    /\ UNCHANGED <<metric_aggregates, sqlite_sequence, request, response, out, calls,
                   derivedVars>>

\* the caller of a run commits
RunCommit(r) ==
    /\ arg[r].pc = "inserted"
    /\ segment_hourly' = rollup_hour(segment_hourly, arg[r].table, RunKey[1], RunKey[2],
                                     RunTime(r))
    /\ out' = 0
    /\ calls' = calls + 1
    /\ arg' = [arg EXCEPT ![r] = [@ EXCEPT !.pc = "committed", !.order = calls + 1]]
    /\ UNCHANGED <<metric_aggregates, sqlite_sequence, request, response, API_KEY,
                   road_segments, road_scores, geocode_cache, payload_cache, requests_sent, now>>

NextRuns ==
    \/ StoreDuring
    \/ \E r \in Runs : RunSelect(r)
    \/ \E r \in Runs : RunReturn(r)
    \/ \E r \in Runs : RunInsert(r)
    \/ \E r \in Runs : RunBusy(r)
    \/ \E r \in Runs : RunCommit(r)

SpecRuns == InitRuns /\ [][NextRuns]_vars

\* the row a run writes alone, into an empty table, from the records it read
AloneRow(r) == rollup_hour(EmptyTable, arg[r].table, RunKey[1], RunKey[2], RunTime(r))[RunKey]

\* C25: whatever the interleaving of the two runs and of ingestion, the row
\* of the key is, column for column, the row the run that committed last
\* writes alone from the records it read; no row exists before a commit.
C25_LastWriterWins ==
    /\ calls = 0 => RunKey \notin DOMAIN segment_hourly
    /\ \A r \in Runs :
           arg[r].pc = "committed" /\ arg[r].order = calls =>
               /\ RunKey \in DOMAIN segment_hourly
               /\ segment_hourly[RunKey] = AloneRow(r)

\* both runs committed, from different record sets, ingestion in between
C25_Witness ==
    /\ arg[1].pc = "committed"
    /\ arg[2].pc = "committed"
    /\ arg[2].order = 1
    /\ arg[1].order = 2
    /\ Len(arg[1].table) = 1
    /\ Len(arg[2].table) = 2
    /\ Len(metric_aggregates) = 3
    /\ segment_hourly[RunKey].n_samples = 1
    /\ segment_hourly[RunKey].updated_at = RunTime(1)


(***************************************************************************)
(* recompute_scores runs that fail before their commit, over a database    *)
(* with records of two segments (server/roadscore.py, server/main.py)      *)
(***************************************************************************)
\* the table after the records of payloads its were ingested one by one
seeded(its) == [i \in 1..Len(its) |-> named_insert_metric(its[i].od, i - 1).row]

\* n copies of x
copies(n, x) == [i \in 1..n |-> x]

\* d of admin_backfill_geocode for a record, the geocoder answering
seed_dict(row) ==
    geocode_dict(row, address_of(Nominatim(Micro(row["lat"]), Micro(row["lon"])).json))

\* a record after a backfill run at time 0 geocoded it
seed_row(row) ==
    geocoded_row(row, seed_dict(row),
                 make_segment_id(seed_dict(row).hwy_ref, seed_dict(row).road_name,
                                 seed_dict(row).state), 0)

\* the cache after the lookup of the coordinates of a record
seed_cache(cache, row) ==
    reverse_geocode_cached(cache, Micro(row["lat"]), Micro(row["lon"]),
                           Nominatim(Micro(row["lat"]), Micro(row["lon"])), 0).cache

\* the database after the records, at two coordinates, first and last, were
\* ingested and geocoded by one backfill run at time 0
seeded_state(its) ==
    [rows |-> [i \in 1..Len(its) |-> seed_row(seeded(its)[i])],
     segments |-> upsert_segment(upsert_segment(EmptyTable, seed_dict(seeded(its)[Len(its)]), 0),
                                 seed_dict(seeded(its)[1]), 0),
     cache |-> seed_cache(seed_cache(EmptyTable, seeded(its)[Len(its)]), seeded(its)[1]),
     sent |-> 2]

MinSeed == 4
MaxSeed == 5

SeedPayload(lat, lon) ==
    ODict(<<<<"lat", Num(lat)>>, <<"lon", Num(lon)>>, <<"road_roughness", Num(40)>>>>)

\* a records at one coordinate and b at another, ingested and geocoded
SeedState(a, b) ==
    seeded_state(copies(a, SeedPayload(3900, -10500)) \o copies(b, SeedPayload(4000, -10400)))

InitFailing ==
    /\ \E a \in MinSeed..MaxSeed, b \in MinSeed..MaxSeed :
           /\ metric_aggregates = SeedState(a, b).rows
           /\ sqlite_sequence = a + b
           /\ road_segments = SeedState(a, b).segments
           /\ payload_cache = SeedState(a, b).cache
           /\ requests_sent = SeedState(a, b).sent
    /\ request = None
    /\ response = None
    /\ arg = None
    /\ out = None
    /\ calls = 0
    /\ API_KEY = ""
    /\ road_scores = EmptyTable
    /\ segment_hourly = EmptyTable
    /\ geocode_cache = EmptyTable
    /\ now = 0

\* a connection closed with its transaction committed all the same
closed_committed(committed, pending) == pending

\* the connection of a request that raised is dropped without commit: what
\* its transaction wrote is rolled back
closed_uncommitted(committed, pending) == committed

\* recompute_scores raises after the upserts of the segments in done, before
\* con.commit(): road_scores as the database then holds it
recompute_failing(scores, rows, done, window_days, t) ==
    closed_uncommitted(scores,
                       upsert_scores(scores, rows, done, window_days, t - window_days * DAY, t))

\* GET or POST /admin/api/recompute_scores, an upsert of the run raising
RecomputeFails ==
    \E done \in SUBSET scored_groups(metric_aggregates, now - TOP_WINDOW * DAY) :
        /\ done # scored_groups(metric_aggregates, now - TOP_WINDOW * DAY)
        /\ request' = [endpoint |-> "recompute_scores", window_days |-> TOP_WINDOW,
                       upserted |-> done]
        /\ road_scores' = recompute_failing(road_scores, metric_aggregates, done, TOP_WINDOW, now)
        /\ response' = [status |-> 500, detail |-> "Internal Server Error"]
        /\ UNCHANGED <<metric_aggregates, sqlite_sequence, arg, out, calls, API_KEY,
                       road_segments, segment_hourly, geocode_cache, payload_cache,
                       requests_sent, now>>

NextFailing == RecomputeScores \/ RecomputeFails \/ AdminDeleteRow \/ Tick

SpecFailing == InitFailing /\ [][NextFailing]_vars

IsFailedRecompute(req) == "upserted" \in DOMAIN req

\* C26: no step removes a row of road_scores, and a recompute_scores run that
\* raises after some of its upserts leaves road_scores as it was.
C26_FailedRunLeavesScores ==
    [][/\ \A seg \in DOMAIN road_scores : seg \in DOMAIN road_scores'
       /\ IsFailedRecompute(request') /\ now' = now /\ metric_aggregates' = metric_aggregates =>
              road_scores' = road_scores]_vars

\* a run failed a day after both segments were scored, after the upsert of
\* one of the two segments it would score
C26_Witness ==
    /\ IsFailedRecompute(request)
    /\ Cardinality(request.upserted) = 1
    /\ Cardinality(scored_groups(metric_aggregates, now - TOP_WINDOW * DAY)) = 2
    /\ now = DAY
    /\ Cardinality(DOMAIN road_scores) = 2
    /\ \A seg \in DOMAIN road_scores : road_scores[seg].updated_at = 0


(***************************************************************************)
(* Admin edits of stored records (server/main.py)                          *)
(***************************************************************************)
PatchAllowed ==
    {"lat", "lon", "speed_mps", "heading_deg", "confidence", "road_name", "short_location",
     "quality_note"}

PatchFloats == {"lat", "lon", "speed_mps", "heading_deg", "confidence"}

\* the value d takes for key k of the patch
patch_value(k, v) == IF k \in PatchFloats THEN _f(v) ELSE Str(strip(Or(v, Str("")).s))

\* d of admin_patch_row, before the coordinates are sanitized
patch_fields(patch) ==
    [k \in DOMAIN patch \cap PatchAllowed \cap table_cols |-> patch_value(k, patch[k])]

\* d after sanitize_lat_lon(tmp) and the three assignments from tmp
patch_from(d, tmp) ==
    Put(Put(Put(d, "lat", Get(tmp, "lat")), "lon", Get(tmp, "lon")),
        "quality_note", IF "quality_note" \in DOMAIN tmp THEN tmp["quality_note"] ELSE Str(""))

patch_sanitized(d) ==
    IF "lat" \in DOMAIN d \/ "lon" \in DOMAIN d THEN patch_from(d, sanitize_lat_lon(d)) ELSE d

\* UPDATE metric_aggregates SET ... WHERE id = ?
patch_rows(rows, row_id, d) ==
    [i \in 1..Len(rows) |-> IF rows[i]["id"] = row_id THEN set_cols(rows[i], d) ELSE rows[i]]

MaxPatchRows == 2

PatchPayloads ==
    {ODict(<<<<"lat", Num(4500)>>, <<"lon", Num(-10000)>>>>),
     ODict(<<<<"lat", Num(99900)>>, <<"lon", Num(-10000)>>, <<"quality_note", Str("fleet-7")>>>>)}

\* patches of the coordinates alone, of the note, and of nothing editable
Patches ==
    {[lat |-> Num(4600)], [lat |-> Num(99900)], [lon |-> Num(-10100)],
     [lat |-> Num(4600), lon |-> Num(18100)], [quality_note |-> Str(" checked ")],
     [node_id |-> Str("dev-9")]}

\* a record is ingested
StorePatchable ==
    \E it \in PatchPayloads :
        /\ Len(metric_aggregates) < MaxPatchRows
        /\ request' = [endpoint |-> "/v1/ingest/aggregates", x_api_key |-> None,
                       data |-> it.od]
        /\ SingleAnswer(named_insert_metric(it.od, sqlite_sequence))
        /\ UNCHANGED <<arg, out, calls, derivedVars>>

PatchAnswer(row_id, d) ==
    IF DOMAIN d = {}
    THEN /\ response' = [status |-> 400, detail |-> "No editable fields provided"]
         /\ UNCHANGED metric_aggregates
    ELSE /\ response' = [status |-> 200, ok |-> TRUE]
         /\ metric_aggregates' = patch_rows(metric_aggregates, row_id, patch_sanitized(d))

\* PATCH /admin/api/rows/{row_id}, the admin credentials not configured
AdminPatchRow ==
    \E row_id \in 1..MaxPatchRows, patch \in Patches :
        /\ request' = [endpoint |-> "/admin/api/rows", method |-> "PATCH", row_id |-> row_id,
                       patch |-> patch]
        /\ PatchAnswer(row_id, patch_fields(patch))
        /\ UNCHANGED <<sqlite_sequence, arg, out, calls, derivedVars>>

NextPatch == StorePatchable \/ AdminPatchRow

SpecPatch == InitScores /\ [][NextPatch]_vars

IsPatch(req) == "patch" \in DOMAIN req

IsPrefix(a, b) == Len(a) <= Len(b) /\ SubSeq(b, 1, Len(a)) = a

\* the part of C27 about ingestion: no stored record changes, and the note of
\* the new record starts with the note the payload carried
IngestKeepsNotes ==
    [][IsSingle' /\ Len(metric_aggregates') = Len(metric_aggregates) + 1 =>
           /\ SubSeq(metric_aggregates', 1, Len(metric_aggregates)) = metric_aggregates
           /\ IsPrefix(IF \E i \in 1..Len(request'.data) : request'.data[i][1] = "quality_note"
                       THEN "fleet-7" ELSE "",
                       NoteOf(metric_aggregates'[Len(metric_aggregates')]))]_vars

\* C27: an operation that sanitizes coordinates keeps what quality_note
\* already holds: a patch of lat and/or lon alone leaves the note of every
\* stored record a prefix of its note afterwards.
C27_NoteAppendOnly ==
    [][IsPatch(request') /\ DOMAIN request'.patch \subseteq {"lat", "lon"} =>
           /\ Len(metric_aggregates') = Len(metric_aggregates)
           /\ \A i \in 1..Len(metric_aggregates) :
                  IsPrefix(NoteOf(metric_aggregates[i]), NoteOf(metric_aggregates'[i]))]_vars


(***************************************************************************)
(* admin_backfill_geocode turn by turn: when each request to the geocoder  *)
(* is sent (server/main.py).  arg is the run in progress (the rows still   *)
(* to handle), out the times at which requests were sent                   *)
(***************************************************************************)
MaxSeconds == 2

InitPace ==
    /\ IdleIngest
    /\ arg = None
    /\ out = <<>>
    /\ calls = 0

\* a second passes; nothing in the handler waits for it
Second ==
    /\ now < MaxSeconds
    /\ now' = now + 1
    /\ UNCHANGED <<metric_aggregates, sqlite_sequence, request, response, arg, out, calls,
                   API_KEY, road_segments, road_scores, segment_hourly, geocode_cache,
                   payload_cache, requests_sent>>

\* the SELECT of admin_backfill_geocode
PaceSelect ==
    /\ arg = None
    /\ request' = [endpoint |-> "/admin/api/backfill_geocode", limit |-> 200]
    /\ arg' = [todo |-> backlog_from(metric_aggregates, Len(metric_aggregates), 200),
               updated |-> 0,
               queued |-> Len(backlog_from(metric_aggregates, Len(metric_aggregates), 200))]
    /\ UNCHANGED <<metric_aggregates, sqlite_sequence, response, out, calls, derivedVars>>

\* the tables after one turn of the loop, and the time of the request if one was sent
PaceTurned(st) ==
    /\ metric_aggregates' = st.rows
    /\ road_segments' = st.segments
    /\ payload_cache' = st.cache
    /\ requests_sent' = st.sent
    /\ out' = IF st.sent > requests_sent THEN Append(out, now) ELSE out
    /\ arg' = [arg EXCEPT !.todo = Tail(arg.todo), !.updated = st.updated]

\* one turn of the loop: the lookup of the next row and its UPDATE
PaceTurn ==
    /\ arg # None
    /\ arg.todo # <<>>
    /\ PaceTurned(backfill_row([rows |-> metric_aggregates, segments |-> road_segments,
                                cache |-> payload_cache, sent |-> requests_sent,
                                updated |-> arg.updated],
                               Head(arg.todo), {}, now))
    /\ UNCHANGED <<sqlite_sequence, request, response, calls, API_KEY, road_scores,
                   segment_hourly, geocode_cache, now>>

\* the loop is over: commit and answer
PaceReturn ==
    /\ arg # None
    /\ arg.todo = <<>>
    /\ response' = [status |-> 200, ok |-> TRUE, updated |-> arg.updated,
                    queued |-> arg.queued]
    /\ arg' = None
    /\ UNCHANGED <<metric_aggregates, sqlite_sequence, request, out, calls, derivedVars>>

NextPace == StoreBacklog \/ PaceSelect \/ PaceTurn \/ PaceReturn \/ Second

SpecPace == InitPace /\ [][NextPace]_vars

\* C28 as stated: time passes between any two consecutive requests to the
\* external geocoder; two requests are never sent back to back.
C28_RequestsSpaced ==
    \A i \in 1..(Len(out) - 1) : out[i] < out[i + 1]


(***************************************************************************)
(* Admin edits of the road name of geocoded records (server/main.py,       *)
(* server/admin_routes.py)                                                 *)
(***************************************************************************)
RoadPatches == {[road_name |-> Str(" Elm St ")], [road_name |-> Str("")]}

RoadForms ==
    {[analyzable |-> 1, points_eligible |-> 0, road_name |-> "Elm St", short_location |-> "",
      quality_note |-> ""],
     [analyzable |-> 1, points_eligible |-> 0, road_name |-> " ", short_location |-> "",
      quality_note |-> ""]}

MaxEditRows == 2

\* a record with coordinates is ingested
StoreEditable ==
    \E it \in BackfillPayloads :
        /\ Len(metric_aggregates) < MaxEditRows
        /\ request' = [endpoint |-> "/v1/ingest/aggregates", x_api_key |-> None,
                       data |-> it.od]
        /\ SingleAnswer(named_insert_metric(it.od, sqlite_sequence))
        /\ UNCHANGED <<arg, out, calls, derivedVars>>

\* PATCH /admin/api/rows/{row_id} with a road name, the admin credentials not configured
AdminPatchRoad ==
    \E row_id \in 1..MaxEditRows, patch \in RoadPatches :
        /\ request' = [endpoint |-> "/admin/api/rows", method |-> "PATCH", row_id |-> row_id,
                       patch |-> patch]
        /\ PatchAnswer(row_id, patch_fields(patch))
        /\ UNCHANGED <<sqlite_sequence, arg, out, calls, derivedVars>>

\* (s.strip() or None)
strip_or_none(s) == IF strip(s) = "" THEN None ELSE Str(strip(s))

\* the UPDATE of row_update
admin_row_update(rows, row_id, form) ==
    patch_rows(rows, row_id,
               [analyzable |-> Num(form.analyzable * 100),
                points_eligible |-> Num(form.points_eligible * 100),
                road_name |-> strip_or_none(form.road_name),
                short_location |-> strip_or_none(form.short_location),
                quality_note |-> strip_or_none(form.quality_note)])

\* POST /admin/row/{row_id}/update by an admin who is signed in
AdminRowUpdate ==
    \E row_id \in 1..MaxEditRows, form \in RoadForms :
        /\ request' = [endpoint |-> "/admin/row/update", method |-> "POST", row_id |-> row_id,
                       form |-> form]
        /\ metric_aggregates' = admin_row_update(metric_aggregates, row_id, form)
        /\ response' = [status |-> 303, location |-> "/admin"]
        /\ UNCHANGED <<sqlite_sequence, arg, out, calls, derivedVars>>

NextEdits == StoreEditable \/ BackfillSome \/ AdminPatchRoad \/ AdminRowUpdate

SpecEdits == InitScores /\ [][NextEdits]_vars

\* C29 as stated: after any sequence of backfill runs and admin row edits,
\* every stored record with a segment_id has the segment_id that
\* make_segment_id gives for its stored hwy_ref, road_name and state, and
\* road_segments has a row for it.
C29_SegmentIdFollowsRoad ==
    \A i \in 1..Len(metric_aggregates) :
        Col(metric_aggregates[i], "segment_id") # None =>
            /\ Col(metric_aggregates[i], "segment_id")
                   = Str(make_segment_id(Col(metric_aggregates[i], "hwy_ref"),
                                         Col(metric_aggregates[i], "road_name"),
                                         Col(metric_aggregates[i], "state")))
            /\ Col(metric_aggregates[i], "segment_id").s \in DOMAIN road_segments


(***************************************************************************)
(* Repeated backfill runs over a fixed set of records, the geocoder always *)
(* answering (server/main.py), turn by turn as above                       *)
(***************************************************************************)
MaxDrainRows == 3
DrainLimit == 1

\* the records ingested before the runs start, oldest first
DrainSeeds == UNION {[1..n -> BackfillPayloads] : n \in 1..MaxDrainRows}

InitDrain ==
    /\ \E its \in DrainSeeds :
           /\ metric_aggregates = seeded(its)
           /\ sqlite_sequence = Len(its)
    /\ request = None
    /\ response = None
    /\ arg = None
    /\ out = <<>>
    /\ calls = 0
    /\ IdleDerived

\* the SELECT of admin_backfill_geocode?limit=DrainLimit
DrainSelect ==
    /\ arg = None
    /\ request' = [endpoint |-> "/admin/api/backfill_geocode", limit |-> DrainLimit]
    /\ arg' = [todo |-> backlog_from(metric_aggregates, Len(metric_aggregates), DrainLimit),
               updated |-> 0,
               queued |-> Len(backlog_from(metric_aggregates, Len(metric_aggregates),
                                           DrainLimit))]
    /\ UNCHANGED <<metric_aggregates, sqlite_sequence, response, out, calls, derivedVars>>

NextDrain == DrainSelect \/ PaceTurn \/ PaceReturn \/ Second

\* the steps of PaceTurn, told by what they do to the run in progress: no
\* other step takes a row off arg.todo
TurnTaken ==
    /\ arg # None
    /\ arg.todo # <<>>
    /\ \E updated \in 0..MaxDrainRows :
           arg' = [arg EXCEPT !.todo = Tail(arg.todo), !.updated = updated]

\* a run that started goes on to its end, and runs are repeated for ever
SpecDrain ==
    /\ InitDrain
    /\ [][NextDrain]_vars
    /\ WF_vars(DrainSelect)
    /\ WF_arg(TurnTaken)
    /\ WF_vars(PaceReturn)

\* every record with coordinates has a segment_id
AllSegmented ==
    \A i \in 1..Len(metric_aggregates) :
        metric_aggregates[i]["lat"] # None /\ metric_aggregates[i]["lon"] # None =>
            Col(metric_aggregates[i], "segment_id") # None

\* the first half of C30 alone
EventuallySegmented == <>[]AllSegmented

\* C30 as stated: with a geocoder that always answers and no further
\* ingestion, repeated runs with a fixed limit eventually give every record
\* with coordinates a segment_id and leave no record to select.
C30_BacklogDrains == <>[](AllSegmented /\ Backlog = {})

====
